---- MODULE Spec2Model ----
(***************************************************************************)
(* A model of the animation-and-sensing core of sunrise-clock:             *)
(*   - debounce (src/unnamed/part_004, the module './debounce'),          *)
(*   - RotaryEncoder (src/lib/RotaryEncoder.ts),                           *)
(*   - Sunrise, the keyframe timeline (src/lib/Sunrise.ts, src/lib/Light.ts)*)
(*   - LightController, the sensor and easing loops (src/unnamed/part_003),*)
(*   - Clock and Ambient, which wire the parts together (src/lib/Clock.ts, *)
(*     src/lib/Ambient.ts), with the alarm-time editor, the state file,    *)
(*     exit() (src/lib/run.ts) and the ambient toggle input.               *)
(*                                                                         *)
(* Each component has its own variables, its own initial predicate and its *)
(* own specification; a component's actions leave the other components'   *)
(* variables unchanged.                                                    *)
(*                                                                         *)
(* An optional value (TypeScript's `T | null`) is a sequence: <<>> is null *)
(* and <<v>> is the value v.                                               *)
(*                                                                         *)
(* Timers: setTimeout(f, d) at time n is due at n + d.  The model's event  *)
(* loop is Node's with an idle loop: a due timer runs at its due           *)
(* millisecond, before time advances and before any other callback of     *)
(* that millisecond (the timers phase precedes the poll phase).            *)
(***************************************************************************)
EXTENDS Integers, Sequences, FiniteSets, TLC

VARIABLES
    \* ---- debounce (one wrapped function) ----
    now,             \* +new Date(), in ms
    minDelay,        \* parameter of debounce()
    maxDelay,        \* parameter of debounce(): <<>> (null) or <<ms>>
    callTimeout,     \* closure variable: <<>> or <<[due, args]>>, the pending timer
    latestCallTime,  \* closure variable: <<>> or <<ms>>
    lastCall,        \* observation: <<>> or <<[time, args]>>, the latest call
    burstFirst,      \* observation: time of the call that armed the pending timer chain
    bursts,          \* observation: number of calls that came >= minDelay after the previous one
    execCount,       \* observation: executions of the wrapped callback
    firstExec,       \* observation: <<>> or <<time of the first execution>>
    lastExec,        \* observation: <<>> or <<[time, args, first, callTime, callArgs]>>
    callsLeft,       \* the caller's script (SpecBurst): calls still to make
    nextCallAt,      \* the caller's script (SpecBurst): time of the next call
    \* ---- RotaryEncoder ----
    onLevel,         \* constructor: 0 when pull = 'UP', 1 when pull = 'DOWN'
    cwState,
    ccwState,
    state,           \* (cwState << 1) | ccwState as last stored by update()
    fed,             \* observation: the combined state after each cw/ccw alert
    transition,      \* observation: <<>> or <<code>>, the code update() looked up last
    emitted,         \* observation: the events emitted by the last alert
    plus,            \* observation: number of rotate(+1) events
    minus,           \* observation: number of rotate(-1) events
    \* ---- Sunrise ----
    rgbwKeyframes,
    active,
    sunUpMinutes,
    sunriseDurationMinutes,
    sunSetDurationMinutes,
    rgbw,            \* four channels, each a reduced fraction <<num, den>>
    dayTick,         \* the wall clock's time of day, in ticks
    paintQueued,     \* a call of the debounced paint() is waiting for its timer
    runTimeout,      \* the timer of run() is pending
    painted,         \* observation of the last paint(): <<>> when it returned early, else
                     \* <<[now, sunUp, t, rgbw]>>, what it read, passed on and computed
    update,          \* observation: <<>> or <<rgbw>>, the 'update' the last step emitted
    lastUpdate,      \* observation: the color of the latest 'update' (RGBW_OFF before any)
    stopped,         \* observation: stop() has returned and no setter was called since
    thrown,          \* observation: a timer callback of Sunrise threw (uncaught)
    runWait,         \* <<>> or <<[ms, delay]>>: the millisecond of the second at which
                     \* the latest run() read the clock, and the delay of its timer
    \* ---- LightController ----
    i2c,             \* the bus is open (i2c !== null)
    isReady,
    reading,         \* sensorLoop() is waiting for getLightLevels()
    levels,          \* sensorLoop()'s local: <<>> (null) or <<[ambient, cumulative]>>
    sensorLoopTimeout,  \* "null", or the state of the timer the field refers to:
    paintLoopTimeout,   \* "pending", "fired" or "cleared"
    lastLightLevels,    \* per level type, raw sensor units
    brightnessLevels,   \* per level type, in 1/Unit
    easedBrightnessLevels,
    easedBrightnessLevelDerivatives,
    lcStopped,       \* observation: LightController.stop() has been called
    changes,         \* observation: reads that changed a brightness level
    since,           \* observation, per level type: paint ticks since the level last changed
    from,            \* observation, per level type: the eased level when the level last changed
    brightnessUpdate,  \* observation: <<>> or <<levels>>, the 'update.brightness' the last
                       \* step emitted
    paintWaitMs,       \* <<>> or <<[elapsedMs, waitMs]>>: the time the latest paint tick
                       \* took and the delay its timer was set with
    \* ---- Clock and Ambient ----
    alarmButton,     \* the level alarmButton.digitalRead() returns (0: switched on)
    alarmLed,        \* the alarm LED is lit (the last pwmWrite was not 0)
    isOn,            \* Ambient.isOn
    ambientRgbw,     \* Ambient.rgbw
    lightRgbw,       \* <<>> or <<rgbw>>, the last color passed to lightController.setRgbw
    display,         \* "digits" or "cleared", what the display shows
    showTimeTimeout, \* the pending timers set by run() ("run") and updateAlarmTime()
                     \* ("alarm"); the field showTimeTimeout holds the last one
    clockStopped,    \* observation: Clock.stop() has been called
    \* ---- Clock: the alarm time, its editor and the state file ----
    alarmTimeMinutes,     \* Clock.alarmTimeMinutes
    editMode,             \* Clock.editMode: "null", "MINUTES" or "HOURS"
    editOffset,           \* Clock.editOffset, in thirds (rotarySpeed is 1/3)
    lastAlarmTimeMinutes, \* the constructor's `let`: <<>> (undefined) or <<minutes>>
    loading,              \* the fs.readFile of loadClockState() is in flight
    saveTimeout,          \* the timer of the debounced saveClockState() is pending
    writing,              \* <<>> or <<minutes>>, the fs.writeFile in flight
    file,                 \* the state file: [kind, value]
    lastWrite,            \* observation: <<>> or <<minutes>>, the latest fs.writeFile call
    unsaved,              \* observation: a 'rotate' event changed alarmTimeMinutes
                          \* and fs.writeFile has not been called since
    rotations,            \* observation: the number of 'rotate' events so far
    exiting,              \* run.ts: exit() has run, its STOP_DELAY_MS timer is pending
    exited,               \* process.exit() has been called
    \* ---- Ambient: the toggle input ----
    lastToggle,           \* Ambient.lastToggle, in ms
    toggleNow,            \* +new Date(), in ms
    alerts                \* observation: the number of 'alert' events of the toggle input

debVars == <<now, minDelay, maxDelay, callTimeout, latestCallTime, lastCall,
             burstFirst, bursts, execCount, firstExec, lastExec, callsLeft, nextCallAt>>
encVars == <<onLevel, cwState, ccwState, state, fed, transition, emitted, plus, minus>>
sunVars == <<rgbwKeyframes, active, sunUpMinutes, sunriseDurationMinutes,
             sunSetDurationMinutes, rgbw, dayTick, paintQueued, runTimeout, painted,
             update, lastUpdate, stopped, thrown, runWait>>
lcVars == <<i2c, isReady, reading, levels, sensorLoopTimeout, paintLoopTimeout,
            lastLightLevels, brightnessLevels, easedBrightnessLevels,
            easedBrightnessLevelDerivatives, lcStopped, changes, since, from,
            brightnessUpdate, paintWaitMs>>
clkVars == <<alarmButton, alarmLed, isOn, ambientRgbw, lightRgbw,
             display, showTimeTimeout, clockStopped>>
stVars == <<alarmTimeMinutes, editMode, editOffset, lastAlarmTimeMinutes, loading,
            saveTimeout, writing, file, lastWrite, unsaved, rotations, exiting, exited>>
ambVars == <<lastToggle, toggleNow, alerts>>
vars == <<debVars, encVars, sunVars, lcVars, clkVars, stVars, ambVars>>

None == <<>>
Some(v) == <<v>>
Min(a, b) == IF a <= b THEN a ELSE b

(***************************************************************************)
(* Bounds of the model.                                                    *)
(***************************************************************************)
StartMs == 100          \* the wall clock (ms) when the model starts
Horizon == 10           \* ms of wall clock explored by SpecDebounce
MaxMinDelay == 3        \* minDelay is drawn from 1..MaxMinDelay
MaxMaxDelay == 5        \* maxDelay is null or drawn from 1..MaxMaxDelay
MaxArg == 2             \* a call's arguments are drawn from 1..MaxArg
MaxFed == 8             \* cw/ccw alerts explored by SpecEncoder

(***************************************************************************)
(* Program constants.                                                      *)
(***************************************************************************)
PAINT_DEBOUNCE_MIN_DELAY_MS == 10
PAINT_DEBOUNCE_MAX_DELAY_MS == 80

(***************************************************************************)
(*                              debounce                                   *)
(***************************************************************************)
DebInit(minD, maxD) ==
    /\ now = StartMs
    /\ minDelay = minD
    /\ maxDelay = maxD
    /\ callTimeout = None
    /\ latestCallTime = None
    /\ lastCall = None
    /\ burstFirst = StartMs
    /\ bursts = 0
    /\ execCount = 0
    /\ firstExec = None
    /\ lastExec = None

\* A timer whose due time has come: it runs before anything else.
TimerDue == callTimeout # None /\ callTimeout[1].due <= now

\* callback.apply(this, args): the wrapped operation runs.
\* `call` is the latest call made so far.
Execute(args, call) ==
    /\ execCount' = execCount + 1
    /\ firstExec' = IF execCount = 0 THEN Some(now) ELSE firstExec
    /\ lastExec' = Some([time |-> now, args |-> args, first |-> burstFirst,
                         callTime |-> call.time, callArgs |-> call.args])

\* What a call does to the observations, whatever the mode.
NoteCall(args) ==
    /\ lastCall' = Some([time |-> now, args |-> args])
    /\ burstFirst' = IF callTimeout = None THEN now ELSE burstFirst
    /\ bursts' = IF lastCall = None \/ now - lastCall[1].time >= minDelay
                 THEN bursts + 1 ELSE bursts

\* setTimeout(handler.bind(this, args), delay)
SetTimeout(args, delay) == Some([due |-> now + delay, args |-> args])

\* The wrapper returned when maxDelay === null.
SimpleMutant(args) ==
    IF callTimeout # None THEN callTimeout ELSE SetTimeout(args, minDelay)
SimpleTimer(args) == SetTimeout(args, minDelay)

CallSimple(args) ==
    /\ maxDelay = None
    /\ ~TimerDue
    /\ callTimeout' = SimpleTimer(args)
    /\ NoteCall(args)
    /\ UNCHANGED <<now, minDelay, maxDelay, latestCallTime, execCount, firstExec, lastExec>>

\* Line 278: the call starts a new burst.
NewBurstEveryCall == TRUE
NewBurst == callTimeout = None \/ latestCallTime = None
\* Line 280.
Deadline == now + maxDelay[1]
\* Line 283.
DeadlineReachedMutant == now > latestCallTime[1]
DeadlineReached == now >= latestCallTime[1]
\* Line 286.
RestartDelay == Min(minDelay, latestCallTime[1])

\* The wrapper returned when maxDelay is given.
CallBounded(args) ==
    /\ maxDelay # None
    /\ ~TimerDue
    /\ NoteCall(args)
    /\ IF NewBurst
       THEN /\ latestCallTime' = Some(Deadline)
            /\ callTimeout' = SetTimeout(args, minDelay)
            /\ UNCHANGED <<execCount, firstExec, lastExec>>
       ELSE IF DeadlineReached
            THEN /\ Execute(args, [time |-> now, args |-> args])
                 /\ callTimeout' = None
                 /\ UNCHANGED latestCallTime
            ELSE /\ callTimeout' = SetTimeout(args, RestartDelay)
                 /\ UNCHANGED <<latestCallTime, execCount, firstExec, lastExec>>
    /\ UNCHANGED <<now, minDelay, maxDelay>>

\* The timer fires: handler(args).
Handler ==
    /\ TimerDue
    /\ Execute(callTimeout[1].args, lastCall[1])
    /\ callTimeout' = None
    /\ UNCHANGED <<now, minDelay, maxDelay, latestCallTime, lastCall, burstFirst, bursts>>

\* A millisecond passes.
Tick ==
    /\ ~TimerDue
    /\ now' = now + 1
    /\ UNCHANGED <<minDelay, maxDelay, callTimeout, latestCallTime, lastCall,
                   burstFirst, bursts, execCount, firstExec, lastExec>>

(***************************************************************************)
(*                            RotaryEncoder                                *)
(***************************************************************************)
EncInit(level) ==
    /\ onLevel = level
    /\ cwState = 0
    /\ ccwState = 0
    /\ state = 0
    /\ fed = <<>>
    /\ transition = None
    /\ emitted = <<>>
    /\ plus = 0
    /\ minus = 0

\* (cw << 1) | ccw
Combined(cw, ccw) == cw * 2 + ccw
\* (prev << 2) | cur
TransitionCode(prev, cur) == prev * 4 + cur

\* Mutants of the table: an else branch that yields -1, a code of the first
\* test written in decimal, and the two directions swapped.
DeltaTwoWay(code) ==
    IF code \in {2, 4, 11, 13} THEN 1 ELSE -1
DeltaDecimalCw(code) ==
    IF code \in {2, 4, 11, 1101} THEN 1
    ELSE IF code \in {1, 7, 8, 1110} THEN -1
    ELSE 0
DeltaSwapped(code) ==
    IF code \in {2, 4, 11, 13} THEN -1
    ELSE IF code \in {1, 7, 8, 1110} THEN 1
    ELSE 0
\* The last code of the second test is written 1110, decimal, in the source.
getDeltaFromTransitionState(code) ==
    IF code = 2 \/ code = 4 \/ code = 11 \/ code = 13 THEN 1
    ELSE IF code = 1 \/ code = 7 \/ code = 8 \/ code = 1110 THEN -1
    ELSE 0

Event(type, delta) == [type |-> type, delta |-> delta]

\* update(), called with the channel states the alert handler has just stored.
UpdateAlwaysEmit(cw, ccw) ==
    LET s == Combined(cw, ccw)
        code == TransitionCode(state, s)
        delta == getDeltaFromTransitionState(code)
    IN  /\ state' = s
        /\ transition' = Some(code)
        /\ emitted' = <<Event("rotate", delta)>>
        /\ plus' = IF delta = 1 THEN plus + 1 ELSE plus
        /\ minus' = IF delta = -1 THEN minus + 1 ELSE minus
Update(cw, ccw) ==
    LET s == Combined(cw, ccw)
        code == TransitionCode(state, s)
        delta == getDeltaFromTransitionState(code)
    IN  IF s = state
        THEN /\ emitted' = <<>>
             /\ transition' = None
             /\ UNCHANGED <<state, plus, minus>>
        ELSE /\ state' = s
             /\ transition' = Some(code)
             /\ emitted' = IF delta # 0 THEN <<Event("rotate", delta)>> ELSE <<>>
             /\ plus' = IF delta = 1 THEN plus + 1 ELSE plus
             /\ minus' = IF delta = -1 THEN minus + 1 ELSE minus

\* cwInput.on('alert', ...)
CwAlert(value) ==
    /\ cwState' = IF value = onLevel THEN 1 ELSE 0
    /\ Update(cwState', ccwState)
    /\ fed' = Append(fed, Combined(cwState', ccwState))
    /\ UNCHANGED <<onLevel, ccwState>>

\* ccwInput.on('alert', ...)
CcwAlert(value) ==
    /\ ccwState' = IF value = onLevel THEN 1 ELSE 0
    /\ Update(cwState, ccwState')
    /\ fed' = Append(fed, Combined(cwState, ccwState'))
    /\ UNCHANGED <<onLevel, cwState>>

\* buttonInput.on('alert', ...)
ButtonAlert(value) ==
    /\ emitted' = <<Event(IF value = onLevel THEN "press" ELSE "release", 0)>>
    /\ UNCHANGED <<onLevel, cwState, ccwState, state, fed, transition, plus, minus>>

(***************************************************************************)
(*                    Sunrise: the keyframe timeline                       *)
(*                                                                         *)
(* Time of day is counted in ticks, TicksPerMinute to the minute: paint()  *)
(* reads hours, minutes and whole seconds, so nowMinutes is a multiple of  *)
(* 1/60 minute, and the model samples those instants.  A JavaScript number *)
(* is a reduced fraction <<num, den>>: interpolation is exact.             *)
(***************************************************************************)
TicksPerMinute == 2
DAY_MINUTES == 24 * 60
DayTicks == DAY_MINUTES * TicksPerMinute

RGBW_OFF == <<0, 0, 0, 0>>
RGBW_BRIGHT == <<200, 140, 60, 255>>

Frame(d, c, up) == [duration |-> d, rgbw |-> c, sunUp |-> up]

\* RGBW_KEYFRAMES, the default of the constructor.
RGBW_KEYFRAMES ==
    << Frame(5, <<0, 0, 0, 0>>, FALSE),
       Frame(5, <<60, 0, 5, 0>>, FALSE),
       Frame(10, <<210, 0, 0, 0>>, FALSE),
       Frame(10, <<200, 70, 0, 20>>, FALSE),
       Frame(30, RGBW_BRIGHT, TRUE),
       Frame(30, RGBW_BRIGHT, FALSE) >>

\* Other values of the constructor's rgbwKeyframes option.
ExampleKeyframes ==
    << Frame(5, <<0, 0, 0, 0>>, FALSE),
       Frame(5, <<100, 0, 20, 0>>, TRUE),
       Frame(5, <<255, 255, 60, 255>>, FALSE) >>
TintedKeyframes ==
    << Frame(2, <<10, 20, 30, 40>>, FALSE),
       Frame(3, <<250, 0, 255, 7>>, TRUE),
       Frame(1, <<0, 128, 64, 255>>, FALSE) >>
KeyframeChoices == {RGBW_KEYFRAMES, ExampleKeyframes, TintedKeyframes}

\* The wake offsets setSunUpTime is called with.
WakeOffsets == {0, 600, 1439}

Abs(x) == IF x < 0 THEN -x ELSE x
RECURSIVE GCD(_, _)
GCD(a, b) == IF b = 0 THEN a ELSE GCD(b, a % b)
\* The number n/d, d > 0, reduced.
Frac(n, d) == LET g == GCD(Abs(n), d) IN <<n \div g, d \div g>>
Whole(c) == [i \in 1..4 |-> <<c[i], 1>>]

\* linear(): ((x - xStart) / (xEnd - xStart)) * (yEnd - yStart) + yStart
LinearNoOffset(x, xStart, xEnd, yStart, yEnd) ==
    Frac((x - xStart) * (yEnd - yStart), xEnd - xStart)
linear(x, xStart, xEnd, yStart, yEnd) ==
    Frac((x - xStart) * (yEnd - yStart) + yStart * (xEnd - xStart), xEnd - xStart)

LinearColorBeyond(x, xStart, xEnd, rgbwStart, rgbwEnd) ==
    [i \in 1..4 |-> linear(x + (xEnd - xStart), xStart, xEnd, rgbwStart[i], rgbwEnd[i])]
linearColor(x, xStart, xEnd, rgbwStart, rgbwEnd) ==
    [i \in 1..4 |-> linear(x, xStart, xEnd, rgbwStart[i], rgbwEnd[i])]

\* A keyframe's duration in ticks.
DurTicks(frame) == frame.duration * TicksPerMinute

\* The loop of calcRgbw from frameIndex on, t already reduced by the frames before.
RECURSIVE CalcFrom(_, _, _)
CalcFrom(frames, t, frameIndex) ==
    IF frameIndex > Len(frames)
    THEN Whole(frames[1].rgbw)
    ELSE LET frame == frames[frameIndex]
             nextRgbw == IF frameIndex + 1 <= Len(frames)
                         THEN frames[frameIndex + 1].rgbw
                         ELSE frames[1].rgbw
         IN  IF t < DurTicks(frame)
             THEN linearColor(t, 0, DurTicks(frame), frame.rgbw, nextRgbw)
             ELSE CalcFrom(frames, t - DurTicks(frame), frameIndex + 1)

\* calcRgbw(t) of an empty keyframe list reads `.rgbw` of undefined on either
\* branch (firstFrame.rgbw, this.rgbwKeyframes[0].rgbw): a TypeError.
CalcThrows(frames) == Len(frames) = 0

\* calcRgbw(t), t in ticks.
CalcNoGuard(frames, t) == CalcFrom(frames, t, 1)
calcRgbw(frames, t) ==
    IF t < 0 THEN Whole(frames[1].rgbw) ELSE CalcFrom(frames, t, 1)

\* run(): the delay of its timer when the clock reads millisecond ms.
SECOND_MS == 1000
RunDelay(ms) == SECOND_MS - ms

\* The constructor's loop over the keyframes: <<rising, falling>> durations.
RECURSIVE DurationsMarkerRising(_, _, _)
DurationsMarkerRising(frames, i, rising) ==
    IF i > Len(frames) THEN <<0, 0>>
    ELSE LET rest == DurationsMarkerRising(frames, i + 1, rising /\ ~frames[i].sunUp)
         IN  IF rising THEN <<rest[1] + frames[i].duration, rest[2]>>
                       ELSE <<rest[1], rest[2] + frames[i].duration>>
RECURSIVE Durations(_, _, _)
Durations(frames, i, rising) ==
    IF i > Len(frames) THEN <<0, 0>>
    ELSE LET r == rising /\ ~frames[i].sunUp
             rest == Durations(frames, i + 1, r)
         IN  IF r THEN <<rest[1] + frames[i].duration, rest[2]>>
                  ELSE <<rest[1], rest[2] + frames[i].duration>>

\* paint(): the offset t it passes to calcRgbw, in ticks.
PaintTNoWrapBack(sunUp, nowTicks, rise, fall) ==
    LET start == (sunUp - rise) * TicksPerMinute
        end == (sunUp + fall) * TicksPerMinute
        shifted == IF end < nowTicks THEN start + DayTicks ELSE start
    IN  nowTicks - shifted
PaintT(sunUp, nowTicks, rise, fall) ==
    LET start == (sunUp - rise) * TicksPerMinute
        end == (sunUp + fall) * TicksPerMinute
        shifted == IF start > nowTicks THEN start - DayTicks
                   ELSE IF end < nowTicks THEN start + DayTicks
                   ELSE start
    IN  nowTicks - shifted

SunInitAt(frames, ms) ==
    /\ runWait = Some([ms |-> ms, delay |-> RunDelay(ms)])
    /\ rgbwKeyframes = frames
    /\ active = TRUE
    /\ sunUpMinutes = 0
    /\ sunriseDurationMinutes = Durations(frames, 1, TRUE)[1]
    /\ sunSetDurationMinutes = Durations(frames, 1, TRUE)[2]
    /\ rgbw = Whole(RGBW_OFF)
    /\ paintQueued = TRUE      \* the constructor calls run(), which calls paint()
    /\ runTimeout = TRUE       \* and sets its timer
    /\ painted = None
    /\ update = None
    /\ lastUpdate = Whole(RGBW_OFF)
    /\ stopped = FALSE
    /\ thrown = FALSE

SunInit(frames) == SunInitAt(frames, 0)

\* setRgbw(): when a channel differs, the color is stored and emitted as 'update'.
SetRgbwAlways(new) ==
    /\ rgbw' = new
    /\ update' = Some(new)
    /\ lastUpdate' = new
setRgbw(new) ==
    IF \A i \in 1..4 : new[i] = rgbw[i]
    THEN /\ update' = None
         /\ UNCHANGED <<rgbw, lastUpdate>>
    ELSE /\ rgbw' = new
         /\ update' = Some(new)
         /\ lastUpdate' = new

\* stop(): clears the timer of run() and switches the color off.  The timer of the
\* debounced paint() belongs to debounce's closure; stop() does not reach it.
Stop ==
    /\ runTimeout' = FALSE
    /\ runWait' = None
    /\ setRgbw(Whole(RGBW_OFF))
    /\ stopped' = TRUE
    /\ UNCHANGED <<rgbwKeyframes, thrown, active, sunUpMinutes, sunriseDurationMinutes,
                   sunSetDurationMinutes, dayTick, paintQueued, painted>>

\* setActive(active)
SetActiveNoPaint(a) ==
    /\ active' = a
    /\ update' = None
    /\ stopped' = FALSE
    /\ UNCHANGED <<rgbwKeyframes, runWait, thrown, sunUpMinutes, sunriseDurationMinutes,
                   sunSetDurationMinutes, rgbw, dayTick, runTimeout, painted,
                   lastUpdate, paintQueued>>
SetActive(a) ==
    /\ active' = a
    /\ paintQueued' = TRUE
    /\ update' = None
    /\ stopped' = FALSE
    /\ UNCHANGED <<rgbwKeyframes, runWait, thrown, sunUpMinutes, sunriseDurationMinutes,
                   sunSetDurationMinutes, rgbw, dayTick, runTimeout, painted,
                   lastUpdate>>

\* setSunUpTime(sunUpMinutes)
SetSunUpTime(m) ==
    /\ sunUpMinutes' = m
    /\ paintQueued' = TRUE
    /\ update' = None
    /\ stopped' = FALSE
    /\ UNCHANGED <<rgbwKeyframes, runWait, thrown, active, sunriseDurationMinutes,
                   sunSetDurationMinutes, rgbw, dayTick, runTimeout, painted,
                   lastUpdate>>

\* run(): the periodic timer fires at the next sampled instant, at millisecond
\* ms of its second, calls paint() and sets its timer again.
\* The debounced paint() of the previous run has executed long before (its
\* timer is due within PAINT_DEBOUNCE_MAX_DELAY_MS + PAINT_DEBOUNCE_MIN_DELAY_MS).
RunFixedPeriod(ms) ==
    /\ runTimeout
    /\ ~paintQueued
    /\ dayTick' = (dayTick + 1) % DayTicks
    /\ paintQueued' = TRUE
    /\ update' = None
    /\ runWait' = Some([ms |-> ms, delay |-> SECOND_MS])
    /\ UNCHANGED <<rgbwKeyframes, thrown, active, sunUpMinutes, sunriseDurationMinutes,
                   sunSetDurationMinutes, rgbw, runTimeout, painted, lastUpdate,
                   stopped>>
Run(ms) ==
    /\ runTimeout
    /\ ~paintQueued
    /\ dayTick' = (dayTick + 1) % DayTicks
    /\ paintQueued' = TRUE
    /\ update' = None
    /\ runWait' = Some([ms |-> ms, delay |-> RunDelay(ms)])
    /\ UNCHANGED <<rgbwKeyframes, thrown, active, sunUpMinutes, sunriseDurationMinutes,
                   sunSetDurationMinutes, rgbw, runTimeout, painted, lastUpdate,
                   stopped>>

\* The body of paint(), run by the debounce timer.
PaintIgnoreActive ==
    /\ paintQueued
    /\ paintQueued' = FALSE
    /\ LET t == PaintT(sunUpMinutes, dayTick, sunriseDurationMinutes,
                       sunSetDurationMinutes)
           computed == calcRgbw(rgbwKeyframes, t)
       IN  /\ setRgbw(computed)
           /\ painted' = Some([now |-> dayTick, sunUp |-> sunUpMinutes,
                               t |-> t, rgbw |-> computed])
    /\ UNCHANGED <<rgbwKeyframes, runWait, thrown, active, sunUpMinutes, sunriseDurationMinutes,
                   sunSetDurationMinutes, dayTick, runTimeout, stopped>>
Paint ==
    /\ paintQueued
    /\ paintQueued' = FALSE
    /\ IF ~active
       THEN /\ setRgbw(Whole(RGBW_OFF))
            /\ painted' = None
            /\ UNCHANGED thrown
       ELSE IF CalcThrows(rgbwKeyframes)
       THEN /\ thrown' = TRUE
            /\ painted' = None
            /\ update' = None
            /\ UNCHANGED <<rgbw, lastUpdate>>
       ELSE LET t == PaintT(sunUpMinutes, dayTick, sunriseDurationMinutes,
                            sunSetDurationMinutes)
                computed == calcRgbw(rgbwKeyframes, t)
            IN  /\ setRgbw(computed)
                /\ painted' = Some([now |-> dayTick, sunUp |-> sunUpMinutes,
                                    t |-> t, rgbw |-> computed])
                /\ UNCHANGED thrown
    /\ UNCHANGED <<rgbwKeyframes, runWait, active, sunUpMinutes, sunriseDurationMinutes,
                   sunSetDurationMinutes, dayTick, runTimeout, stopped>>

(***************************************************************************)
(*                 LightController (src/unnamed/part_003)                  *)
(*                                                                         *)
(* A brightness (a number in [0, 1] in the code) is a whole number of      *)
(* 1/Unit; arithmetic on it rounds to the nearest 1/Unit where the code's  *)
(* double rounds to the nearest representable number.                      *)
(***************************************************************************)
SubUnits == 10
Unit == 10000 * SubUnits

LIGHT_LEVEL_TYPES == {"ambient", "cumulative"}
DEFAULT_PAINT_PERIOD_MS == <<1000, 30>>
BRIGHTNESS_EASE_COEFFICIENT ==
    Frac(DEFAULT_PAINT_PERIOD_MS[1], 1500 * DEFAULT_PAINT_PERIOD_MS[2])
LIGHT_LEVEL_DELTA_QUANTUM == 7
LIGHT_QUANTIZE_START == 343
LIGHT_LEVEL_DELTA_THRESHOLD == Frac(LIGHT_LEVEL_DELTA_QUANTUM, 2)

\* The raw levels getLightLevels() resolves with.
LevelChoices ==
    { [ambient |-> 343, cumulative |-> 1029],
      [ambient |-> 345, cumulative |-> 1030],
      [ambient |-> 347, cumulative |-> 700],
      [ambient |-> 65535, cumulative |-> 0] }

\* Math.round(n / d) for d > 0: the integer nearest to n/d, halves upward.
Round(n, d) == (2 * n + d) \div (2 * d)

\* sensorLoop(): the quantized sensor value.
QuantizeNone(raw) == raw
Quantize(raw) ==
    Round(raw - LIGHT_QUANTIZE_START, LIGHT_LEVEL_DELTA_QUANTUM)
        * LIGHT_LEVEL_DELTA_QUANTUM + LIGHT_QUANTIZE_START

\* clamp(-4.8267e12 * sensorValue^-5.00968 + 1.00403, 0, 1) in 1/10000, at the
\* sensor values 343, 350, ... 1029.  Below 341 the formula is negative (clamped
\* to 0), from 1029 on it exceeds 1 (clamped to 1).
Curve ==
    <<
         432,  1357,  2177,  2906,  3555,  4135,  4654,  5119,  5536,  5912,  6251,
        6557,  6834,  7085,  7312,  7519,  7708,  7879,  8036,  8180,  8311,  8431,
        8541,  8643,  8736,  8822,  8901,  8974,  9042,  9104,  9162,  9216,  9266,
        9312,  9355,  9395,  9432,  9466,  9499,  9529,  9557,  9583,  9608,  9631,
        9653,  9673,  9692,  9710,  9726,  9742,  9757,  9771,  9784,  9796,  9808,
        9819,  9829,  9839,  9848,  9857,  9865,  9873,  9881,  9888,  9894,  9900,
        9906,  9912,  9918,  9923,  9928,  9932,  9937,  9941,  9945,  9949,  9952,
        9956,  9959,  9962,  9965,  9968,  9971,  9973,  9976,  9978,  9980,  9983,
        9985,  9987,  9989,  9990,  9992,  9994,  9995,  9997,  9998, 10000, 10000 >>
GridValueNoClamp(k) ==
    IF k < 0 THEN 0 ELSE IF k >= Len(Curve) THEN 10040 ELSE Curve[k + 1]
GridValue(k) ==
    IF k < 0 THEN 0 ELSE IF k >= Len(Curve) THEN 10000 ELSE Curve[k + 1]

\* sensorValueToBrightness(): the curve at a tabulated sensor value; between two
\* tabulated values (the code passes none) the straight line between them.
sensorValueToBrightness(sensorValue) ==
    LET k == (sensorValue - LIGHT_QUANTIZE_START) \div LIGHT_LEVEL_DELTA_QUANTUM
        r == (sensorValue - LIGHT_QUANTIZE_START) % LIGHT_LEVEL_DELTA_QUANTUM
    IN  ((GridValue(k) * (LIGHT_LEVEL_DELTA_QUANTUM - r)
            + GridValue(k + 1) * r) * SubUnits) \div LIGHT_LEVEL_DELTA_QUANTUM

\* The fields after the constructor: initI2c() is waiting for the bus to open.
LcInit ==
    /\ i2c = FALSE
    /\ isReady = FALSE
    /\ reading = FALSE
    /\ levels = None
    /\ sensorLoopTimeout = "null"
    /\ paintLoopTimeout = "null"
    /\ lastLightLevels = [t \in LIGHT_LEVEL_TYPES |-> 0]
    /\ brightnessLevels = [t \in LIGHT_LEVEL_TYPES |-> 0]
    /\ easedBrightnessLevels = [t \in LIGHT_LEVEL_TYPES |-> 0]
    /\ easedBrightnessLevelDerivatives = [t \in LIGHT_LEVEL_TYPES |-> 0]
    /\ lcStopped = FALSE
    /\ changes = 0
    /\ since = [t \in LIGHT_LEVEL_TYPES |-> 0]
    /\ from = [t \in LIGHT_LEVEL_TYPES |-> 0]
    /\ brightnessUpdate = None
    /\ paintWaitMs = None

\* sensorLoop() up to its await: the read is started.
SensorLoopStart ==
    /\ reading' = TRUE
    /\ levels' = None

\* The delta threshold test of sensorLoop().
AcceptsEither(read, levelType) ==
    /\ read # None
    /\ \E u \in LIGHT_LEVEL_TYPES :
           Abs(read[1][u] - lastLightLevels[u])
               * LIGHT_LEVEL_DELTA_THRESHOLD[2] > LIGHT_LEVEL_DELTA_THRESHOLD[1]
AcceptsFullQuantum(read, levelType) ==
    /\ read # None
    /\ Abs(read[1][levelType] - lastLightLevels[levelType]) > LIGHT_LEVEL_DELTA_QUANTUM
AcceptsAny(read, levelType) ==
    /\ read # None
    /\ read[1][levelType] # lastLightLevels[levelType]
Accepts(read, levelType) ==
    /\ read # None
    /\ Abs(read[1][levelType] - lastLightLevels[levelType])
           * LIGHT_LEVEL_DELTA_THRESHOLD[2] > LIGHT_LEVEL_DELTA_THRESHOLD[1]

\* sensorLoop() after its await: getLightLevels() resolved with read[1], or
\* rejected (read = <<>>).
SensorLoopResumeThrows(read) ==
    /\ reading
    /\ reading' = FALSE
    /\ levels' = read
    /\ lastLightLevels' =
           [t \in LIGHT_LEVEL_TYPES |->
               IF Accepts(read, t) THEN read[1][t] ELSE lastLightLevels[t]]
    /\ brightnessLevels' =
           [t \in LIGHT_LEVEL_TYPES |->
               IF Accepts(read, t)
               THEN sensorValueToBrightness(Quantize(read[1][t]))
               ELSE brightnessLevels[t]]
    /\ sensorLoopTimeout' = IF read = None THEN sensorLoopTimeout ELSE "pending"
    /\ changes' = IF brightnessLevels' # brightnessLevels THEN changes + 1 ELSE changes
    /\ since' = [t \in LIGHT_LEVEL_TYPES |->
                    IF brightnessLevels'[t] # brightnessLevels[t] THEN 0 ELSE since[t]]
    /\ from' = [t \in LIGHT_LEVEL_TYPES |->
                   IF brightnessLevels'[t] # brightnessLevels[t]
                   THEN easedBrightnessLevels[t] ELSE from[t]]
    /\ brightnessUpdate' = None
    /\ UNCHANGED <<i2c, isReady, paintLoopTimeout, easedBrightnessLevels,
                   easedBrightnessLevelDerivatives, lcStopped, paintWaitMs>>
SensorLoopResume(read) ==
    /\ reading
    /\ reading' = FALSE
    /\ levels' = read
    /\ lastLightLevels' =
           [t \in LIGHT_LEVEL_TYPES |->
               IF Accepts(read, t) THEN read[1][t] ELSE lastLightLevels[t]]
    /\ brightnessLevels' =
           [t \in LIGHT_LEVEL_TYPES |->
               IF Accepts(read, t)
               THEN sensorValueToBrightness(Quantize(read[1][t]))
               ELSE brightnessLevels[t]]
    /\ sensorLoopTimeout' = "pending"
    /\ changes' = IF brightnessLevels' # brightnessLevels THEN changes + 1 ELSE changes
    /\ since' = [t \in LIGHT_LEVEL_TYPES |->
                    IF brightnessLevels'[t] # brightnessLevels[t] THEN 0 ELSE since[t]]
    /\ from' = [t \in LIGHT_LEVEL_TYPES |->
                   IF brightnessLevels'[t] # brightnessLevels[t]
                   THEN easedBrightnessLevels[t] ELSE from[t]]
    /\ brightnessUpdate' = None
    /\ UNCHANGED <<i2c, isReady, paintLoopTimeout, easedBrightnessLevels,
                   easedBrightnessLevelDerivatives, lcStopped, paintWaitMs>>

\* The timer of sensorLoop() fires.
SensorLoopTimer ==
    /\ sensorLoopTimeout = "pending"
    /\ ~reading
    /\ sensorLoopTimeout' = "fired"
    /\ SensorLoopStart
    /\ brightnessUpdate' = None
    /\ UNCHANGED <<i2c, isReady, paintLoopTimeout, lastLightLevels, brightnessLevels,
                   easedBrightnessLevels, easedBrightnessLevelDerivatives, lcStopped,
                   changes, since, from, paintWaitMs>>

\* The derivative paintLoop() stores for a level type.
DerivativeSummed(levelType) ==
    LET dldt == Round((brightnessLevels[levelType] - easedBrightnessLevels[levelType])
                          * BRIGHTNESS_EASE_COEFFICIENT[1],
                      BRIGHTNESS_EASE_COEFFICIENT[2])
    IN  easedBrightnessLevelDerivatives[levelType] + dldt
Derivative(levelType) ==
    LET dldt == Round((brightnessLevels[levelType] - easedBrightnessLevels[levelType])
                          * BRIGHTNESS_EASE_COEFFICIENT[1],
                      BRIGHTNESS_EASE_COEFFICIENT[2])
        d2ldt2 == dldt - easedBrightnessLevelDerivatives[levelType]
    IN  easedBrightnessLevelDerivatives[levelType] + d2ldt2

\* The delay of paintLoop()'s timer: Math.max(0, paintPeriodMs - elapsedMs).
PaintWait(elapsedMs) ==
    LET n == DEFAULT_PAINT_PERIOD_MS[1] - DEFAULT_PAINT_PERIOD_MS[2] * elapsedMs
    IN  IF n > 0 THEN Frac(n, DEFAULT_PAINT_PERIOD_MS[2]) ELSE <<0, 1>>

\* paintLoop(): one easing step of both levels, the 'update.brightness' event
\* and the next timer; elapsedMs is the time the step and its listeners took.
PaintLoopGated(elapsedMs) ==
    /\ easedBrightnessLevelDerivatives' = [t \in LIGHT_LEVEL_TYPES |-> Derivative(t)]
    /\ easedBrightnessLevels' =
           [t \in LIGHT_LEVEL_TYPES |-> easedBrightnessLevels[t] + Derivative(t)]
    /\ brightnessUpdate' = IF easedBrightnessLevels' # easedBrightnessLevels
                           THEN Some(easedBrightnessLevels') ELSE None
    /\ paintLoopTimeout' = "pending"
    /\ paintWaitMs' = Some([elapsedMs |-> elapsedMs, waitMs |-> PaintWait(elapsedMs)])
    /\ since' = [t \in LIGHT_LEVEL_TYPES |-> since[t] + 1]
PaintLoop(elapsedMs) ==
    /\ easedBrightnessLevelDerivatives' = [t \in LIGHT_LEVEL_TYPES |-> Derivative(t)]
    /\ easedBrightnessLevels' =
           [t \in LIGHT_LEVEL_TYPES |-> easedBrightnessLevels[t] + Derivative(t)]
    /\ brightnessUpdate' = Some(easedBrightnessLevels')
    /\ paintLoopTimeout' = "pending"
    /\ paintWaitMs' = Some([elapsedMs |-> elapsedMs, waitMs |-> PaintWait(elapsedMs)])
    /\ since' = [t \in LIGHT_LEVEL_TYPES |-> since[t] + 1]

\* The timer of paintLoop() fires.
PaintLoopTimer(elapsedMs) ==
    /\ paintLoopTimeout = "pending"
    /\ PaintLoop(elapsedMs)
    /\ UNCHANGED <<i2c, isReady, reading, levels, sensorLoopTimeout, lastLightLevels,
                   brightnessLevels, lcStopped, changes, from>>

\* initI2c() resumes with the open bus and runs the constructor's callback:
\* sensorLoop() (up to its await), paintLoop(), isReady.
Opened(elapsedMs) ==
    /\ ~i2c
    /\ i2c' = TRUE
    /\ SensorLoopStart
    /\ PaintLoop(elapsedMs)
    /\ isReady' = TRUE
    /\ UNCHANGED <<sensorLoopTimeout, lastLightLevels, brightnessLevels, lcStopped,
                   changes, from>>

\* stop(): clearTimeout of the two timers the fields refer to.
LcStop ==
    /\ sensorLoopTimeout' =
           IF sensorLoopTimeout = "pending" THEN "cleared" ELSE sensorLoopTimeout
    /\ paintLoopTimeout' =
           IF paintLoopTimeout = "pending" THEN "cleared" ELSE paintLoopTimeout
    /\ lcStopped' = TRUE
    /\ brightnessUpdate' = None
    /\ UNCHANGED <<i2c, isReady, reading, levels, lastLightLevels, brightnessLevels,
                   easedBrightnessLevels, easedBrightnessLevelDerivatives, changes,
                   since, from, paintWaitMs>>

(***************************************************************************)
(*        Clock (src/lib/Clock.ts) and Ambient (src/lib/Ambient.ts)        *)
(*                                                                         *)
(* Clock owns a LightController, a Sunrise, an Ambient and a Display.  It  *)
(* constructs the Sunrise with autoRun: false and calls its run() when the *)
(* controller is ready.  The rotary encoder and the clock state file are   *)
(* left out: they reach the outputs through setSunUpTime() and the same    *)
(* display timer as run().                                                 *)
(***************************************************************************)
\* BRIGHTNESS_LEVELS of Ambient, the brightness in 1/100.
BRIGHTNESS_LEVELS ==
    << [brightness |-> 0, rgbw |-> <<50, 0, 0, 0>>],
       [brightness |-> 15, rgbw |-> <<200, 90, 0, 0>>],
       [brightness |-> 25, rgbw |-> <<255, 90, 0, 60>>],
       [brightness |-> 100, rgbw |-> RGBW_BRIGHT] >>

\* The loop of Ambient.calculateRgbw from levelIndex on; brightness in 1/Unit.
RECURSIVE CalculateFrom(_, _)
CalculateFrom(brightness, levelIndex) ==
    IF levelIndex > Len(BRIGHTNESS_LEVELS)
    THEN Whole(BRIGHTNESS_LEVELS[Len(BRIGHTNESS_LEVELS)].rgbw)
    ELSE LET low == BRIGHTNESS_LEVELS[levelIndex]
             lowB == low.brightness * (Unit \div 100)
         IN  IF levelIndex = Len(BRIGHTNESS_LEVELS) \/ brightness < lowB
             THEN Whole(low.rgbw)
             ELSE LET high == BRIGHTNESS_LEVELS[levelIndex + 1]
                      highB == high.brightness * (Unit \div 100)
                  IN  IF brightness < highB
                      THEN linearColor(brightness, lowB, highB, low.rgbw, high.rgbw)
                      ELSE CalculateFrom(brightness, levelIndex + 1)
calculateRgbw(brightness) == CalculateFrom(brightness, 1)

\* The fields after the constructors of Clock and Ambient; level is the alarm
\* switch.
ClkInit(level) ==
    /\ alarmButton = level
    /\ alarmLed = FALSE
    /\ isOn = FALSE
    /\ ambientRgbw = Whole(RGBW_OFF)
    /\ lightRgbw = None
    /\ display = "digits"      \* Display's constructor paints 12:00
    /\ showTimeTimeout = <<>>
    /\ clockStopped = FALSE

\* The state file: absent or unreadable, not JSON, JSON without the field, or
\* the record {alarmTimeMinutes: value}.
AbsentFile == [kind |-> "absent", value |-> 0]
GarbageFile == [kind |-> "garbage", value |-> 0]
EmptyFile == [kind |-> "empty", value |-> 0]
StateFile(m) == [kind |-> "state", value |-> m]

DEFAULT_ALARM_MINUTES == 10 * 60

\* The editor and persistence fields after Clock's constructor: loadClockState()
\* has called fs.readFile on the state file f.
StInit(f) ==
    /\ alarmTimeMinutes = DEFAULT_ALARM_MINUTES
    /\ editMode = "null"
    /\ editOffset = 0
    /\ lastAlarmTimeMinutes = None
    /\ loading = TRUE
    /\ saveTimeout = FALSE
    /\ writing = None
    /\ file = f
    /\ lastWrite = None
    /\ unsaved = FALSE
    /\ rotations = 0
    /\ exiting = FALSE
    /\ exited = FALSE

TOGGLE_IGNORE_DELAY_MS == 300
\* The clock's reading when Ambient is constructed; +new Date() is far above
\* TOGGLE_IGNORE_DELAY_MS.
EpochMs == 1000

\* The toggle fields after Ambient's constructor.
AmbInit ==
    /\ lastToggle = 0
    /\ toggleNow = EpochMs
    /\ alerts = 0

\* Sunrise constructed with autoRun: false: run() not called yet.
SunInitNoRun(frames) ==
    /\ runWait = None
    /\ rgbwKeyframes = frames
    /\ active = TRUE
    /\ sunUpMinutes = 0
    /\ sunriseDurationMinutes = Durations(frames, 1, TRUE)[1]
    /\ sunSetDurationMinutes = Durations(frames, 1, TRUE)[2]
    /\ rgbw = Whole(RGBW_OFF)
    /\ paintQueued = FALSE
    /\ runTimeout = FALSE
    /\ painted = None
    /\ update = None
    /\ lastUpdate = Whole(RGBW_OFF)
    /\ stopped = FALSE
    /\ thrown = FALSE

\* updateLight, the listener of the 'update' events of Sunrise and Ambient, when
\* one was emitted: the ambient color when Ambient is on, else the Sunrise color.
UpdateLightAmbientOnly(wasEmitted, on, ambientColor, sunriseColor) ==
    lightRgbw' = IF wasEmitted THEN Some(ambientColor) ELSE lightRgbw
UpdateLight(wasEmitted, on, ambientColor, sunriseColor) ==
    lightRgbw' = IF wasEmitted
                 THEN Some(IF on THEN ambientColor ELSE sunriseColor)
                 ELSE lightRgbw

\* Ambient.update() with isOn = on, reading the controller's eased ambient
\* level; then updateLight if it emitted 'update'.
AmbientUpdateWhen(on, brightness) ==
    LET new == IF on THEN calculateRgbw(brightness) ELSE Whole(RGBW_OFF)
    IN  /\ ambientRgbw' = new
        /\ UpdateLight(new # ambientRgbw, on, new, rgbw)
AmbientUpdate(brightness) == AmbientUpdateWhen(isOn, brightness)

\* Ambient.toggle(), the listener of the toggle input's 'alert', at time t.
\* setAmbientEnabled() does not await its sendCommand(), so its promise is
\* fulfilled when it returns and update() runs as soon as toggle() has returned,
\* before any other callback.
ToggleAlways(t) ==
    /\ alerts' = alerts + 1
    /\ lastToggle' = t
    /\ isOn' = ~isOn
    /\ AmbientUpdateWhen(~isOn, easedBrightnessLevels["ambient"])
Toggle(t) ==
    /\ alerts' = alerts + 1
    /\ IF t - lastToggle < TOGGLE_IGNORE_DELAY_MS
       THEN UNCHANGED <<lastToggle, isOn, ambientRgbw, lightRgbw>>
       ELSE /\ lastToggle' = t
            /\ isOn' = ~isOn
            /\ AmbientUpdateWhen(~isOn, easedBrightnessLevels["ambient"])

\* updateActive(): the alarm LED and sunrise.setActive().
UpdateActive(level) ==
    /\ alarmLed' = (level = 0)
    /\ SetActive(level = 0)

\* Math.round of an editOffset of n thirds.
RoundThirds(n) == Round(n, 3)
\* The rotate handler's normalisation of alarmTimeMinutes.
WrapDay(m) ==
    IF m < 0 THEN m + DAY_MINUTES
    ELSE IF m >= DAY_MINUTES THEN m % DAY_MINUTES
    ELSE m

\* `if (this.showTimeTimeout !== null) clearTimeout(this.showTimeTimeout)` of
\* run() and updateAlarmTime(): the timer the field holds is removed.
ClearShowTimeNot(timers) == timers
ClearShowTime(timers) ==
    IF timers # <<>> THEN SubSeq(timers, 1, Len(timers) - 1) ELSE timers
\* The pending timers without the i-th, which fires.
Fired(timers, i) == SubSeq(timers, 1, i - 1) \o SubSeq(timers, i + 1, Len(timers))

\* updateAlarmTime() with alarmTimeMinutes = m: the wake offset of Sunrise, the
\* alarm time on the display, and the timer that resumes showing the time.
UpdateAlarmTime(m) ==
    /\ SetSunUpTime(m)
    /\ display' = "alarm"
    /\ showTimeTimeout' = Append(ClearShowTime(showTimeTimeout), "alarm")

\* The body of saveClockState(): fs.writeFile of {alarmTimeMinutes: m}.
SaveBody(m) ==
    /\ writing' = Some(m)
    /\ lastWrite' = Some(m)
    /\ unsaved' = FALSE
\* A call of the debounced saveClockState() with alarmTimeMinutes = m: the
\* timer is set (again), or, when a timer has been pending for maxDelay, the
\* body runs at the call and no timer is pending.
SaveCallDropped(m) ==
    /\ unsaved' = (unsaved \/ m # alarmTimeMinutes)
    /\ UNCHANGED <<saveTimeout, writing, lastWrite>>
SaveCall(m) ==
    \/ /\ saveTimeout' = TRUE
       /\ unsaved' = (unsaved \/ m # alarmTimeMinutes)
       /\ UNCHANGED <<writing, lastWrite>>
    \/ /\ saveTimeout
       /\ writing = None
       /\ saveTimeout' = FALSE
       /\ SaveBody(m)

\* The 'rotate' handler of the encoder, delta in {-1, 1}.
Rotate(delta) ==
    LET mode == IF editMode = "null" THEN "MINUTES" ELSE editMode
        base == IF editMode = "null" THEN alarmTimeMinutes ELSE lastAlarmTimeMinutes[1]
        offset == (IF editMode = "null" THEN 0 ELSE editOffset) + delta
        new == WrapDay(base + RoundThirds(offset) * (IF mode = "MINUTES" THEN 1 ELSE 60))
    IN  /\ editMode' = mode
        /\ editOffset' = offset
        /\ lastAlarmTimeMinutes' = Some(base)
        /\ alarmTimeMinutes' = new
        /\ UpdateAlarmTime(new)
        /\ SaveCall(new)
        /\ rotations' = rotations + 1
        /\ UNCHANGED <<loading, file, exiting, exited>>

\* The 'release' handler of the encoder.
Release ==
    /\ editMode' = IF editMode = "MINUTES" THEN "HOURS" ELSE "MINUTES"
    /\ editOffset' = 0
    /\ lastAlarmTimeMinutes' = Some(alarmTimeMinutes)
    /\ UpdateAlarmTime(alarmTimeMinutes)
    /\ UNCHANGED <<alarmTimeMinutes, loading, saveTimeout, writing, file, lastWrite, unsaved,
                   rotations, exiting, exited>>

\* The callback of loadClockState()'s fs.readFile: an error, a text that
\* JSON.parse rejects, a record without the field, or the stored alarm time.
LoadedUnchecked ==
    /\ loading
    /\ loading' = FALSE
    /\ alarmTimeMinutes' = file.value
    /\ UpdateAlarmTime(file.value)
    /\ UNCHANGED <<editMode, editOffset, lastAlarmTimeMinutes, saveTimeout, writing,
                   file, lastWrite, unsaved, rotations, exiting, exited>>
Loaded ==
    /\ loading
    /\ loading' = FALSE
    /\ IF file.kind = "state"
       THEN /\ alarmTimeMinutes' = file.value
            /\ UpdateAlarmTime(file.value)
       ELSE UNCHANGED <<alarmTimeMinutes, sunVars, display, showTimeTimeout>>
    /\ UNCHANGED <<editMode, editOffset, lastAlarmTimeMinutes, saveTimeout, writing,
                   file, lastWrite, unsaved, rotations, exiting, exited>>

\* A timer set by updateAlarmTime() or by run() fires: the field is set to
\* null, the callback of updateAlarmTime() sets editMode = null, then run()
\* shows the time and sets the timer of the next minute.
ShowTime ==
    \E i \in 1..Len(showTimeTimeout) :
        /\ editMode' = IF showTimeTimeout[i] = "alarm" THEN "null" ELSE editMode
        /\ display' = "digits"
        /\ showTimeTimeout' = Append(Fired(showTimeTimeout, i), "run")
        /\ UNCHANGED <<alarmTimeMinutes, editOffset, lastAlarmTimeMinutes, loading,
                       saveTimeout, writing, file, lastWrite, unsaved, rotations, exiting,
                       exited>>

\* The timer of the debounced saveClockState() fires.
SaveTimer ==
    /\ saveTimeout
    /\ writing = None
    /\ saveTimeout' = FALSE
    /\ SaveBody(alarmTimeMinutes)
    /\ UNCHANGED <<alarmTimeMinutes, editMode, editOffset, lastAlarmTimeMinutes,
                   loading, file, rotations, exiting, exited>>

\* The callback of fs.writeFile: the record is in the file, or the write failed
\* and left the file as it was or truncated.
WriteDone(ok) ==
    /\ writing # None
    /\ writing' = None
    /\ IF ok THEN file' = StateFile(writing[1])
       ELSE file' \in {file, GarbageFile}
    /\ UNCHANGED <<alarmTimeMinutes, editMode, editOffset, lastAlarmTimeMinutes,
                   loading, saveTimeout, lastWrite, unsaved, rotations, exiting, exited>>

\* run.ts, exit(): clock.stop() and the timer of process.exit().
Exit ==
    /\ ~exiting
    /\ exiting' = TRUE
    /\ LcStop
    /\ Stop
    /\ UpdateLight(update' # None, isOn, ambientRgbw, rgbw')
    /\ display' = "cleared"
    /\ alarmLed' = FALSE
    /\ clockStopped' = TRUE
    /\ UNCHANGED <<alarmTimeMinutes, editMode, editOffset, lastAlarmTimeMinutes,
                   loading, saveTimeout, writing, file, lastWrite, unsaved, rotations, exited>>
\* process.exit(0): a write in flight is completed by the system or is not.
ProcessExit ==
    /\ exiting
    /\ exited' = TRUE
    /\ writing' = None
    /\ file' \in {file} \cup {StateFile(w[1]) : w \in {writing} \ {None}}
    /\ UNCHANGED <<alarmTimeMinutes, editMode, editOffset, lastAlarmTimeMinutes,
                   loading, saveTimeout, lastWrite, unsaved, rotations, exiting>>

(***************************************************************************)
(*                           Specifications                                *)
(***************************************************************************)
\* The components at rest, for the specifications of the other components.
DebIdle == DebInit(PAINT_DEBOUNCE_MIN_DELAY_MS, Some(PAINT_DEBOUNCE_MAX_DELAY_MS))
           /\ callsLeft = 0 /\ nextCallAt = StartMs
EncIdle == EncInit(0)
SunIdle == SunInit(RGBW_KEYFRAMES) /\ dayTick = 0
LcIdle == LcInit
ClkIdle == ClkInit(1)
StIdle == StInit(AbsentFile)
AmbIdle == AmbInit

\* ---- debounce, any call timing ----
InitDebounce ==
    /\ \E minD \in 1..MaxMinDelay :
       \E maxD \in {None} \cup {Some(m) : m \in 1..MaxMaxDelay} :
          DebInit(minD, maxD)
    /\ callsLeft = 0
    /\ nextCallAt = StartMs
    /\ EncIdle
    /\ SunIdle
    /\ LcIdle
    /\ ClkIdle
    /\ StIdle
    /\ AmbIdle

DebCall ==
    /\ \E a \in 1..MaxArg : CallSimple(a) \/ CallBounded(a)
    /\ UNCHANGED <<callsLeft, nextCallAt, encVars, sunVars, lcVars, clkVars, stVars, ambVars>>
DebFire ==
    /\ Handler
    /\ UNCHANGED <<callsLeft, nextCallAt, encVars, sunVars, lcVars, clkVars, stVars, ambVars>>
DebTick ==
    /\ now < StartMs + Horizon
    /\ Tick
    /\ UNCHANGED <<callsLeft, nextCallAt, encVars, sunVars, lcVars, clkVars, stVars, ambVars>>

NextDebounce == DebCall \/ DebFire \/ DebTick
SpecDebounce == InitDebounce /\ [][NextDebounce]_vars

\* ---- a method decorated with @debounce, called on two objects of its class ----
\* The decorator replaces descriptor.value, the method of the prototype, by one
\* wrapper: its callTimeout and latestCallTime are those of every object.  What
\* handler.bind(this, args) binds is the object and the (empty) arguments.
Instances == {"a", "b"}
BoundCall(inst) == [this |-> inst, args |-> <<>>]

SharedCall ==
    /\ \E inst \in Instances : CallSimple(BoundCall(inst)) \/ CallBounded(BoundCall(inst))
    /\ UNCHANGED <<callsLeft, nextCallAt, encVars, sunVars, lcVars, clkVars, stVars, ambVars>>

NextShared == SharedCall \/ DebFire \/ DebTick
SpecShared == InitDebounce /\ [][NextShared]_vars

\* ---- debounce(10, 80) called every 5 ms for 100 ms ----
InitBurst ==
    /\ DebInit(PAINT_DEBOUNCE_MIN_DELAY_MS, Some(PAINT_DEBOUNCE_MAX_DELAY_MS))
    /\ callsLeft \in {20, 21}      \* the last call at 95 ms or at 100 ms
    /\ nextCallAt = StartMs
    /\ EncIdle
    /\ SunIdle
    /\ LcIdle
    /\ ClkIdle
    /\ StIdle
    /\ AmbIdle

BurstCall ==
    /\ callsLeft > 0
    /\ now = nextCallAt
    /\ \E a \in 1..MaxArg : CallBounded(a)
    /\ callsLeft' = callsLeft - 1
    /\ nextCallAt' = now + 5
    /\ UNCHANGED <<encVars, sunVars, lcVars, clkVars, stVars, ambVars>>
BurstFire ==
    /\ Handler
    /\ UNCHANGED <<callsLeft, nextCallAt, encVars, sunVars, lcVars, clkVars, stVars, ambVars>>
BurstTick ==
    /\ IF callsLeft > 0 THEN now < nextCallAt ELSE callTimeout # None
    /\ Tick
    /\ UNCHANGED <<callsLeft, nextCallAt, encVars, sunVars, lcVars, clkVars, stVars, ambVars>>

NextBurst == BurstCall \/ BurstFire \/ BurstTick
SpecBurst == InitBurst /\ [][NextBurst]_vars

\* ---- RotaryEncoder, any sequence of alerts ----
InitEncoder ==
    /\ \E level \in {0, 1} : EncInit(level)
    /\ DebIdle
    /\ SunIdle
    /\ LcIdle
    /\ ClkIdle
    /\ StIdle
    /\ AmbIdle

EncCw ==
    /\ Len(fed) < MaxFed
    /\ \E value \in {0, 1} : CwAlert(value)
    /\ UNCHANGED <<debVars, sunVars, lcVars, clkVars, stVars, ambVars>>
EncCcw ==
    /\ Len(fed) < MaxFed
    /\ \E value \in {0, 1} : CcwAlert(value)
    /\ UNCHANGED <<debVars, sunVars, lcVars, clkVars, stVars, ambVars>>
EncButton ==
    /\ \E value \in {0, 1} : ButtonAlert(value)
    /\ UNCHANGED <<debVars, sunVars, lcVars, clkVars, stVars, ambVars>>

NextEncoder == EncCw \/ EncCcw \/ EncButton
SpecEncoder == InitEncoder /\ [][NextEncoder]_vars

\* ---- Sunrise: setters, the periodic run() and the debounced paint() ----
InitTimeline ==
    /\ \E frames \in KeyframeChoices : SunInit(frames)
    /\ dayTick \in 0..(DayTicks - 1)
    /\ DebIdle
    /\ EncIdle
    /\ LcIdle
    /\ ClkIdle
    /\ StIdle
    /\ AmbIdle

SunSetActive ==
    /\ \E a \in BOOLEAN : SetActive(a)
    /\ UNCHANGED <<debVars, encVars, lcVars, clkVars, stVars, ambVars>>
SunSetSunUpTime ==
    /\ \E m \in WakeOffsets : SetSunUpTime(m)
    /\ UNCHANGED <<debVars, encVars, lcVars, clkVars, stVars, ambVars>>
SunRun ==
    /\ Run(0)
    /\ UNCHANGED <<debVars, encVars, lcVars, clkVars, stVars, ambVars>>
SunPaint ==
    /\ Paint
    /\ UNCHANGED <<debVars, encVars, lcVars, clkVars, stVars, ambVars>>

NextTimeline == SunSetActive \/ SunSetSunUpTime \/ SunRun \/ SunPaint
SpecTimeline == InitTimeline /\ [][NextTimeline]_vars

\* ---- Sunrise with the default keyframes, and stop() ----
InitShutdown ==
    /\ SunInit(RGBW_KEYFRAMES)
    /\ dayTick \in 0..(DayTicks - 1)
    /\ DebIdle
    /\ EncIdle
    /\ LcIdle
    /\ ClkIdle
    /\ StIdle
    /\ AmbIdle

SunStop ==
    /\ Stop
    /\ UNCHANGED <<debVars, encVars, lcVars, clkVars, stVars, ambVars>>

NextShutdown == SunSetActive \/ SunSetSunUpTime \/ SunRun \/ SunPaint \/ SunStop
SpecShutdown == InitShutdown /\ [][NextShutdown]_vars

\* ---- Sunrise constructed with any keyframe list, the empty one included ----
\* An uncaught exception of a timer callback ends the process: nothing of it
\* runs afterwards.
InitConstruct ==
    /\ \E frames \in {<< >>, RGBW_KEYFRAMES} : SunInit(frames)
    /\ dayTick \in 0..(DayTicks - 1)
    /\ DebIdle
    /\ EncIdle
    /\ LcIdle
    /\ ClkIdle
    /\ StIdle
    /\ AmbIdle
ConSetActive ==
    /\ ~thrown
    /\ SunSetActive
ConRun ==
    /\ ~thrown
    /\ SunRun
ConPaint ==
    /\ ~thrown
    /\ SunPaint
NextConstruct == ConSetActive \/ ConRun \/ ConPaint
SpecConstruct == InitConstruct /\ [][NextConstruct]_vars

\* ---- Sunrise: the periodic tick, on time or late by any part of a second ----
\* The millisecond of the second at which a tick reads the clock.
MsChoices == {0, 1, 500, 999}

InitTick ==
    /\ SunInit(RGBW_KEYFRAMES)
    /\ dayTick \in 0..(DayTicks - 1)
    /\ DebIdle
    /\ EncIdle
    /\ LcIdle
    /\ ClkIdle
    /\ StIdle
    /\ AmbIdle
TickRun ==
    /\ \E ms \in MsChoices : Run(ms)
    /\ UNCHANGED <<debVars, encVars, lcVars, clkVars, stVars, ambVars>>
NextTick == TickRun \/ SunPaint \/ SunSetActive \/ SunStop
SpecTick == InitTick /\ [][NextTick]_vars

\* ---- LightController: any interleaving of its callbacks and stop() ----
MaxChanges == 3         \* reads are made until this many changed a brightness level
MaxPaints == 5          \* paint ticks are made until a level is this many ticks old
\* The milliseconds a paint tick and its listeners take: less than the paint
\* period, or more.
ElapsedChoices == {0, 40}

InitController ==
    /\ LcInit
    /\ DebIdle
    /\ EncIdle
    /\ SunIdle
    /\ ClkIdle
    /\ StIdle
    /\ AmbIdle

LcOpened ==
    /\ \E elapsedMs \in ElapsedChoices : Opened(elapsedMs)
    /\ UNCHANGED <<debVars, encVars, sunVars, clkVars, stVars, ambVars>>
LcSensorTimer ==
    /\ SensorLoopTimer
    /\ UNCHANGED <<debVars, encVars, sunVars, clkVars, stVars, ambVars>>
LcRead ==
    /\ changes < MaxChanges
    /\ \E read \in {None} \cup {Some(l) : l \in LevelChoices} : SensorLoopResume(read)
    /\ UNCHANGED <<debVars, encVars, sunVars, clkVars, stVars, ambVars>>
LcPaintTimer ==
    /\ \A t \in LIGHT_LEVEL_TYPES : since[t] < MaxPaints
    /\ \E elapsedMs \in ElapsedChoices : PaintLoopTimer(elapsedMs)
    /\ UNCHANGED <<debVars, encVars, sunVars, clkVars, stVars, ambVars>>
LcStopCall ==
    /\ LcStop
    /\ UNCHANGED <<debVars, encVars, sunVars, clkVars, stVars, ambVars>>

NextController == LcOpened \/ LcSensorTimer \/ LcRead \/ LcPaintTimer \/ LcStopCall
SpecController == InitController /\ [][NextController]_vars

\* ---- LightController: samples close to one another and to zero ----
MaxRaw == 12            \* raw values 0..MaxRaw and around LIGHT_QUANTIZE_START
RawChoices ==
    (0..MaxRaw) \cup ((LIGHT_QUANTIZE_START - 3)..(LIGHT_QUANTIZE_START + MaxRaw))
SampleChoices ==
    { [ambient |-> a, cumulative |-> c] : a \in RawChoices, c \in {0, 3, 700} }

SampleRead ==
    /\ changes < MaxChanges
    /\ \E read \in {None} \cup {Some(l) : l \in SampleChoices} : SensorLoopResume(read)
    /\ UNCHANGED <<debVars, encVars, sunVars, clkVars, stVars, ambVars>>

SampleOpened ==
    /\ Opened(0)
    /\ UNCHANGED <<debVars, encVars, sunVars, clkVars, stVars, ambVars>>

NextSample == SampleOpened \/ LcSensorTimer \/ SampleRead
SpecSample == InitController /\ [][NextSample]_vars

\* ---- LightController: up to MaxSteps changes of the levels, then held ----
MaxSteps == 2           \* reads that change a brightness level
MaxHeld == 240          \* paint ticks made after the last change
\* The ages of a level (in paint ticks) at which a change is read: the first
\* read returns before the second paint tick.
StepTicks == {1, 15, 120}

StepOpened ==
    /\ Opened(0)
    /\ UNCHANGED <<debVars, encVars, sunVars, clkVars, stVars, ambVars>>
StepSensorTimer ==
    /\ SensorLoopTimer
    /\ UNCHANGED <<debVars, encVars, sunVars, clkVars, stVars, ambVars>>
StepRead ==
    /\ changes < MaxSteps
    /\ \E t \in LIGHT_LEVEL_TYPES : since[t] \in StepTicks
    /\ \E l \in LevelChoices : SensorLoopResume(Some(l))
    /\ UNCHANGED <<debVars, encVars, sunVars, clkVars, stVars, ambVars>>
\* A read that fails, or that differs from the last accepted one by less than
\* the threshold.
HoldRead ==
    /\ \E read \in {None, Some(lastLightLevels),
                     Some([t \in LIGHT_LEVEL_TYPES |-> lastLightLevels[t] + 3])} :
           SensorLoopResume(read)
    /\ UNCHANGED <<debVars, encVars, sunVars, clkVars, stVars, ambVars>>
StepPaintTimer ==
    /\ \E t \in LIGHT_LEVEL_TYPES : since[t] < MaxHeld
    /\ PaintLoopTimer(0)
    /\ UNCHANGED <<debVars, encVars, sunVars, clkVars, stVars, ambVars>>

NextStep == StepOpened \/ StepSensorTimer \/ StepRead \/ HoldRead \/ StepPaintTimer
SpecStep == InitController /\ [][NextStep]_vars

\* ---- Clock: its parts' callbacks, the alarm switch, the ambient toggle, stop() ----
ClockTicks == 2         \* sampled instants of the wall clock, from midnight on
ClockReads == 1         \* sensor reads that change a brightness level
MaxAlerts == 2          \* alerts of the ambient toggle

InitClock ==
    /\ LcInit
    /\ SunInitNoRun(RGBW_KEYFRAMES)
    /\ dayTick = 0
    /\ \E level \in {0, 1} : ClkInit(level)
    /\ StIdle
    /\ AmbIdle
    /\ DebIdle
    /\ EncIdle

\* The bus opens: sensorLoop(), paintLoop() with its 'update.brightness'
\* listeners (updateDisplayBrightness, Ambient.update), then the 'ready'
\* callback: setRgbw(RGBW_OFF), sunrise.run(), updateDisplayBrightness(), run().
ClkOpened ==
    /\ Opened(0)
    /\ active' = (alarmButton = 0)
    /\ paintQueued' = TRUE
    /\ runTimeout' = TRUE
    /\ runWait' = Some([ms |-> 0, delay |-> RunDelay(0)])
    /\ update' = None
    /\ stopped' = FALSE
    /\ alarmLed' = (alarmButton = 0)
    /\ ambientRgbw' = IF isOn THEN calculateRgbw(easedBrightnessLevels'["ambient"])
                      ELSE Whole(RGBW_OFF)
    /\ lightRgbw' = Some(Whole(RGBW_OFF))
    /\ display' = "digits"
    /\ showTimeTimeout' = Append(ClearShowTime(showTimeTimeout), "run")
    /\ UNCHANGED <<rgbwKeyframes, thrown, sunUpMinutes, sunriseDurationMinutes,
                   sunSetDurationMinutes, rgbw, dayTick, painted, lastUpdate>>
    /\ UNCHANGED <<alarmButton, isOn, clockStopped, debVars, encVars, stVars, ambVars>>

\* The controller's paint timer, with the listeners of 'update.brightness'.
ClkPaintTick ==
    /\ \A t \in LIGHT_LEVEL_TYPES : since[t] < MaxPaints
    /\ PaintLoopTimer(0)
    /\ UpdateActive(alarmButton)
    /\ AmbientUpdate(easedBrightnessLevels'["ambient"])
    /\ UNCHANGED <<alarmButton, isOn, display, showTimeTimeout,
                   clockStopped, debVars, encVars, stVars, ambVars>>
ClkSensorTimer ==
    /\ SensorLoopTimer
    /\ UNCHANGED <<debVars, encVars, stVars, ambVars, sunVars, clkVars>>
ClkRead ==
    /\ changes < ClockReads
    /\ \E read \in {None} \cup {Some(l) : l \in LevelChoices} : SensorLoopResume(read)
    /\ UNCHANGED <<debVars, encVars, stVars, ambVars, sunVars, clkVars>>

\* An alert of the alarm switch: updateActive().
ClkAlarmButton ==
    /\ ~clockStopped
    /\ \E level \in {0, 1} :
           /\ alarmButton' = level
           /\ UpdateActive(level)
    /\ UNCHANGED <<isOn, ambientRgbw, lightRgbw, display,
                   showTimeTimeout, clockStopped, debVars, encVars, stVars, ambVars, lcVars>>

\* An alert of the ambient toggle, TOGGLE_IGNORE_DELAY_MS after the alert
\* before it: Ambient.toggle().
ClkAmbientToggle ==
    /\ ~clockStopped
    /\ alerts < MaxAlerts
    /\ toggleNow' = toggleNow + TOGGLE_IGNORE_DELAY_MS
    /\ Toggle(toggleNow')
    /\ UNCHANGED <<alarmButton, alarmLed, display,
                   showTimeTimeout, clockStopped, debVars, encVars, stVars, sunVars, lcVars>>
\* The timers of Sunrise; updateLight listens to its 'update'.
ClkSunRun ==
    /\ dayTick < ClockTicks
    /\ Run(0)
    /\ UNCHANGED <<debVars, encVars, stVars, ambVars, lcVars, clkVars>>
ClkSunPaint ==
    /\ Paint
    /\ UpdateLight(update' # None, isOn, ambientRgbw, rgbw')
    /\ UNCHANGED <<alarmButton, alarmLed, isOn, ambientRgbw, display,
                   showTimeTimeout, clockStopped, debVars, encVars, stVars, ambVars, lcVars>>

\* The timer of Clock.run(): it shows the time and sets the timer again.
ClkShowTime ==
    /\ ShowTime
    /\ UNCHANGED <<alarmButton, alarmLed, isOn, ambientRgbw, lightRgbw,
                   clockStopped, debVars, encVars, ambVars, sunVars, lcVars>>

\* Clock.stop() of a clock that is ready: lightController.stop(),
\* sunrise.stop() (updateLight listens), display.clear(), alarmLed.pwmWrite(0).
ClkStop ==
    /\ isReady
    /\ LcStop
    /\ Stop
    /\ UpdateLight(update' # None, isOn, ambientRgbw, rgbw')
    /\ display' = "cleared"
    /\ alarmLed' = FALSE
    /\ clockStopped' = TRUE
    /\ UNCHANGED <<alarmButton, isOn, ambientRgbw, showTimeTimeout,
                   debVars, encVars, stVars, ambVars>>

NextClock ==
    \/ ClkOpened \/ ClkPaintTick \/ ClkSensorTimer \/ ClkRead \/ ClkAlarmButton
    \/ ClkAmbientToggle \/ ClkSunRun \/ ClkSunPaint
    \/ ClkShowTime \/ ClkStop
SpecClock == InitClock /\ [][NextClock]_vars

\* ---- Ambient: alerts of the toggle input at any distance in time ----
MaxToggleMs == 320      \* the toggle is watched for this long
TickChoices == {1, 299} \* the steps of time, in ms

InitToggle ==
    /\ LcInit
    /\ SunInitNoRun(RGBW_KEYFRAMES)
    /\ dayTick = 0
    /\ ClkInit(1)
    /\ StIdle
    /\ AmbInit
    /\ DebIdle
    /\ EncIdle
TogTick ==
    /\ \E d \in TickChoices :
           /\ toggleNow + d <= EpochMs + MaxToggleMs
           /\ toggleNow' = toggleNow + d
    /\ UNCHANGED <<lastToggle, alerts, debVars, encVars, sunVars, lcVars, clkVars, stVars>>
TogAlert ==
    /\ alerts < MaxAlerts + 1
    /\ Toggle(toggleNow)
    /\ UNCHANGED <<toggleNow, alarmButton, alarmLed, display,
                   showTimeTimeout, clockStopped, debVars, encVars, sunVars, lcVars,
                   stVars>>
NextToggle == TogTick \/ TogAlert
SpecToggle == InitToggle /\ [][NextToggle]_vars

\* ---- Clock: the alarm time, the dial, the state file and exit() ----
\* The bus is not open: the controller's loops have not started and Sunrise
\* paints only when a setter queued it.
MaxRotations == 2       \* 'rotate' events
StoredChoices == {0, 599, 1439}   \* alarm times found in the state file

InitState ==
    /\ LcInit
    /\ SunInitNoRun(RGBW_KEYFRAMES)
    /\ dayTick = 0
    /\ ClkInit(1)
    /\ \E f \in {AbsentFile, GarbageFile, EmptyFile}
                 \cup {StateFile(m) : m \in StoredChoices} : StInit(f)
    /\ AmbIdle
    /\ DebIdle
    /\ EncIdle

StRotate ==
    /\ ~exited
    /\ rotations < MaxRotations
    /\ \E delta \in {-1, 1} : Rotate(delta)
    /\ UNCHANGED <<alarmButton, alarmLed, isOn, ambientRgbw, lightRgbw,
                   clockStopped, debVars, encVars, ambVars, lcVars>>
StRelease ==
    /\ ~exited
    /\ Release
    /\ UNCHANGED <<alarmButton, alarmLed, isOn, ambientRgbw, lightRgbw,
                   clockStopped, debVars, encVars, ambVars, lcVars>>
StLoaded ==
    /\ ~exited
    /\ Loaded
    /\ UNCHANGED <<alarmButton, alarmLed, isOn, ambientRgbw, lightRgbw,
                   clockStopped, debVars, encVars, ambVars, lcVars>>
StShowTime ==
    /\ ~exited
    /\ ShowTime
    /\ UNCHANGED <<alarmButton, alarmLed, isOn, ambientRgbw, lightRgbw,
                   clockStopped, debVars, encVars, ambVars, sunVars, lcVars>>
StSunPaint ==
    /\ ~exited
    /\ Paint
    /\ UpdateLight(update' # None, isOn, ambientRgbw, rgbw')
    /\ UNCHANGED <<alarmButton, alarmLed, isOn, ambientRgbw, display,
                   showTimeTimeout, clockStopped, debVars, encVars, ambVars, lcVars, stVars>>
StSaveTimer ==
    /\ ~exited
    /\ SaveTimer
    /\ UNCHANGED <<debVars, encVars, ambVars, sunVars, lcVars, clkVars>>
StWriteDone ==
    /\ ~exited
    /\ \E ok \in BOOLEAN : WriteDone(ok)
    /\ UNCHANGED <<debVars, encVars, ambVars, sunVars, lcVars, clkVars>>
StExit ==
    /\ ~exited
    /\ Exit
    /\ UNCHANGED <<alarmButton, isOn, ambientRgbw, showTimeTimeout,
                   debVars, encVars, ambVars>>
StProcessExit ==
    /\ ~exited
    /\ ProcessExit
    /\ UNCHANGED <<debVars, encVars, ambVars, sunVars, lcVars, clkVars>>

NextState ==
    \/ StRotate \/ StRelease \/ StLoaded \/ StShowTime \/ StSunPaint
    \/ StSaveTimer \/ StWriteDone \/ StExit \/ StProcessExit
SpecState == InitState /\ [][NextState]_vars

\* ---- Clock: the dial and the show-time timer, from the constructor on ----
InitEdit ==
    /\ LcInit
    /\ SunInitNoRun(RGBW_KEYFRAMES)
    /\ dayTick = 0
    /\ ClkInit(1)
    /\ \E f \in {AbsentFile, StateFile(599)} : StInit(f)
    /\ AmbIdle
    /\ DebIdle
    /\ EncIdle

NextEdit == ClkOpened \/ StLoaded \/ StRotate \/ StRelease \/ StShowTime
SpecEdit == InitEdit /\ [][NextEdit]_vars

\* ---- Clock: one edit session of the alarm time, the dial turned far ----
MaxDetents == 75        \* 'rotate' events of the session

InitDial ==
    /\ LcInit
    /\ SunInitNoRun(RGBW_KEYFRAMES)
    /\ dayTick = 0
    /\ ClkInit(1)
    /\ \E f \in {AbsentFile, StateFile(0)} : StInit(f)
    /\ AmbIdle
    /\ DebIdle
    /\ EncIdle

DialLoaded ==
    /\ Loaded
    /\ UNCHANGED <<alarmButton, alarmLed, isOn, ambientRgbw, lightRgbw,
                   clockStopped, debVars, encVars, ambVars, lcVars>>
\* The button is pressed and released before the dial is turned.
DialRelease ==
    /\ ~loading
    /\ rotations = 0
    /\ Release
    /\ UNCHANGED <<alarmButton, alarmLed, isOn, ambientRgbw, lightRgbw,
                   clockStopped, debVars, encVars, ambVars, lcVars>>
DialRotate ==
    /\ ~loading
    /\ rotations < MaxDetents
    /\ \E delta \in {-1, 1} : Rotate(delta)
    /\ UNCHANGED <<alarmButton, alarmLed, isOn, ambientRgbw, lightRgbw,
                   clockStopped, debVars, encVars, ambVars, lcVars>>

NextDial == DialLoaded \/ DialRelease \/ DialRotate
SpecDial == InitDial /\ [][NextDial]_vars

(***************************************************************************)
(*                         Claims: debounce                                *)
(***************************************************************************)
Bounded == maxDelay # None
Latency == lastExec[1].time - lastExec[1].first

\* C1: in bounded mode, whatever the timing of the calls of a burst, the
\* wrapped operation executes no later than maxDelay after the first call of
\* the burst (here for minDelay < maxDelay).
C1_ExecutesWithinMaxDelay ==
    (Bounded /\ minDelay < maxDelay[1] /\ lastExec # None)
        => Latency <= maxDelay[1]

\* The calls of SpecBurst are over and no timer is pending.
Finished == callsLeft = 0 /\ callTimeout = None

\* C2 as stated: debounce(10, 80) called every 5 ms for 100 ms executes the
\* wrapped operation exactly once, no later than 80 ms after the first call.
C2_ExactlyOneExecution ==
    /\ execCount <= 1
    /\ Finished => /\ execCount = 1
                   /\ firstExec[1] - StartMs <= PAINT_DEBOUNCE_MAX_DELAY_MS

\* C2, amended: debounce(10, 80) called every 5 ms for 100 ms executes the
\* wrapped operation exactly twice: first exactly 80 ms after the first call
\* and not before, with the arguments of the call made at 80 ms, and a second
\* time minDelay after the last call, with the arguments of the last call.
C2_TwoExecutions ==
    /\ execCount <= 2
    /\ execCount >= 1 <=> (firstExec # None)
    /\ firstExec # None => firstExec[1] = StartMs + PAINT_DEBOUNCE_MAX_DELAY_MS
    /\ now > StartMs + PAINT_DEBOUNCE_MAX_DELAY_MS => execCount >= 1
    /\ execCount = 1 => /\ lastExec[1].callTime = lastExec[1].time
                        /\ lastExec[1].args = lastExec[1].callArgs
    /\ Finished => /\ execCount = 2
                   /\ lastExec[1].time = lastCall[1].time + minDelay
                   /\ lastExec[1].args = lastCall[1].args

C2_Witness ==
    /\ Finished
    /\ execCount = 2
    /\ firstExec = Some(StartMs + 80)
    /\ lastExec[1].time > StartMs + 100

\* C3: in simple mode every execution happens exactly minDelay after the
\* latest call, with that call's arguments; no execution happens between the
\* first call of a burst and its last; and each burst (a run of calls less
\* than minDelay apart) executes exactly once: the executions so far, plus
\* the pending one, are as many as the bursts.
C3_SimpleModeLastCallOnly ==
    ~Bounded =>
        /\ lastExec # None =>
              /\ lastExec[1].time = lastExec[1].callTime + minDelay
              /\ lastExec[1].args = lastExec[1].callArgs
        /\ (callTimeout # None /\ lastExec # None) => lastExec[1].time <= burstFirst
        /\ callTimeout # None => callTimeout[1].due = lastCall[1].time + minDelay
        /\ bursts = execCount + (IF callTimeout # None THEN 1 ELSE 0)

\* A burst of several calls has executed, with the arguments of its last call,
\* which differ from those of an earlier burst's.
C3_Witness ==
    /\ ~Bounded
    /\ execCount = 2
    /\ lastExec[1].first < lastExec[1].callTime
    /\ lastExec[1].args = 2
    /\ callTimeout = None

(***************************************************************************)
(*                       Claims: RotaryEncoder                             *)
(***************************************************************************)
\* The combined states (A << 1) | B after each step of a full turn.
CwCycle == <<2, 3, 1, 0>>       \* (0,0)->(1,0)->(1,1)->(0,1)->(0,0)
CcwCycle == <<1, 3, 2, 0>>      \* (0,0)->(0,1)->(1,1)->(1,0)->(0,0)
\* The alerts so far have fed the cycle, one channel change at a time, from (0,0).
Feeds(cycle) == \A i \in 1..Len(fed) : fed[i] = cycle[((i - 1) % 4) + 1]
FullCycles == Len(fed) \div 4
Rotations == {e \in {emitted[i] : i \in 1..Len(emitted)} : e.type = "rotate"}

\* C4 as stated: the clockwise sequence emits exactly one rotate(+1) per full
\* cycle and no rotate(-1).
C4_OnePlusPerCycle ==
    (Feeds(CwCycle) /\ Len(fed) % 4 = 0) => (plus = FullCycles /\ minus = 0)

\* C4, amended: the clockwise sequence emits one rotate(+1) for each channel
\* change, four per full cycle, and no rotate(-1).
C4_FourPlusPerCycle ==
    Feeds(CwCycle) => (plus = Len(fed) /\ minus = 0)

C4_Witness ==
    /\ Feeds(CwCycle)
    /\ Len(fed) = 8
    /\ plus = 8
    /\ minus = 0

\* C5 as stated: the counter-clockwise sequence emits exactly one rotate(-1)
\* per full cycle and no rotate(+1).
C5_OneMinusPerCycle ==
    (Feeds(CcwCycle) /\ Len(fed) % 4 = 0) => (minus = FullCycles /\ plus = 0)

\* C5, amended: the counter-clockwise sequence emits no rotate(+1), and one
\* rotate(-1) for each channel change but the third of a cycle,
\* (1,1)->(1,0), which emits nothing: three rotate(-1) per full cycle.
C5_ThreeMinusPerCycle ==
    Feeds(CcwCycle) =>
        /\ plus = 0
        /\ minus = Len(fed) - Cardinality({i \in 1..Len(fed) : i % 4 = 3})
        /\ (Len(fed) % 4 = 0 => minus = 3 * FullCycles)

C5_Witness ==
    /\ Feeds(CcwCycle)
    /\ Len(fed) = 8
    /\ minus = 6
    /\ plus = 0

Codes == 0..15
\* The codes in which both channels change at once.
BothChange == {3, 6, 9, 12}
EmitsAsTable ==
    transition # None =>
        LET delta == getDeltaFromTransitionState(transition[1])
        IN  emitted = IF delta = 0 THEN <<>> ELSE <<Event("rotate", delta)>>

\* C6 as stated: exactly two of the 16 codes yield +1 and exactly two yield
\* -1; every other code yields 0 and emits nothing; an emitted rotate carries
\* +1 or -1.
C6_TwoCodesEachWay ==
    /\ Cardinality({c \in Codes : getDeltaFromTransitionState(c) = 1}) = 2
    /\ Cardinality({c \in Codes : getDeltaFromTransitionState(c) = -1}) = 2
    /\ \A c \in BothChange : getDeltaFromTransitionState(c) = 0
    /\ \A e \in Rotations : e.delta \in {1, -1}

\* C6, amended: exactly four codes (2, 4, 11, 13) yield +1 and exactly three
\* (1, 7, 8) yield -1; every other code, among them 14 and every code in which
\* both channels change at once, yields 0; update() emits rotate(delta) when
\* the code it looked up yields a nonzero delta and nothing otherwise; an
\* emitted rotate carries +1 or -1.
C6_TableAsWritten ==
    /\ {c \in Codes : getDeltaFromTransitionState(c) = 1} = {2, 4, 11, 13}
    /\ {c \in Codes : getDeltaFromTransitionState(c) = -1} = {1, 7, 8}
    /\ \A c \in Codes \ {1, 2, 4, 7, 8, 11, 13} : getDeltaFromTransitionState(c) = 0
    /\ \A c \in BothChange : getDeltaFromTransitionState(c) = 0
    /\ fed # <<>> => EmitsAsTable \/ (emitted # <<>> /\ Rotations = {})
    /\ \A e \in Rotations : e.delta \in {1, -1}

\* The step (1,1)->(1,0), code 14, was dropped after rotations both ways.
C6_Witness ==
    /\ transition = Some(14)
    /\ emitted = <<>>
    /\ plus > 0
    /\ minus > 0

\* C7: a cw or ccw alert after which (A << 1) | B equals the stored state
\* emits no event and leaves the stored state unchanged.
C7_SameStateNoEvent ==
    [][(fed' # fed /\ Combined(cwState', ccwState') = state)
          => (state' = state /\ emitted' = <<>> /\ plus' = plus /\ minus' = minus)]_vars

\* An alert repeated the level of a channel away from the initial state.
C7_Witness ==
    /\ Len(fed) >= 2
    /\ fed[Len(fed)] = fed[Len(fed) - 1]
    /\ state = 3
    /\ transition = None
    /\ emitted = <<>>

(***************************************************************************)
(*                          Claims: Sunrise                                *)
(***************************************************************************)
RiseTicks == sunriseDurationMinutes * TicksPerMinute
FallTicks == sunSetDurationMinutes * TicksPerMinute
RECURSIVE SumTicks(_, _)
SumTicks(frames, n) == IF n = 0 THEN 0 ELSE SumTicks(frames, n - 1) + DurTicks(frames[n])
\* The tick, counted from the start of the first frame, at which frame i starts.
FrameStart(i) == SumTicks(rgbwKeyframes, i - 1)
TotalTicks == SumTicks(rgbwKeyframes, Len(rgbwKeyframes))
FirstColor == Whole(rgbwKeyframes[1].rgbw)

\* C8: for an offset from the wake instant outside [-riseDuration,
\* fallDuration], the computed color is the first keyframe's color exactly.
C8_OutsideIsFirstColor ==
    painted # None =>
        LET fromWake == painted[1].t - RiseTicks
        IN  (fromWake < -RiseTicks \/ fromWake > FallTicks)
                => painted[1].rgbw = FirstColor

\* After the last frame of a timeline whose first color is not off.
C8_Witness ==
    /\ painted # None
    /\ rgbwKeyframes = TintedKeyframes
    /\ painted[1].t > TotalTicks
    /\ painted[1].rgbw = Whole(<<10, 20, 30, 40>>)
    /\ rgbw = painted[1].rgbw

\* The frame whose window [start, start + duration) holds t.
FrameAt(t) ==
    CHOOSE i \in 1..Len(rgbwKeyframes) :
        FrameStart(i) <= t /\ t < FrameStart(i) + DurTicks(rgbwKeyframes[i])
NextColor(i) ==
    IF i = Len(rgbwKeyframes) THEN rgbwKeyframes[1].rgbw ELSE rgbwKeyframes[i + 1].rgbw
\* color_i + (t - frameStart_i) / duration_i * (color_next - color_i)
Blend(i, t) ==
    LET d == DurTicks(rgbwKeyframes[i])
        c == rgbwKeyframes[i].rgbw
    IN  [k \in 1..4 |-> Frac(c[k] * d + (t - FrameStart(i)) * (NextColor(i)[k] - c[k]), d)]

\* C9: for t inside the window of keyframe i the computed color is the linear
\* blend of color_i and the next color (the first keyframe's after the last
\* frame); 2.5 minutes into the first frame of the example keyframes it is
\* [50,0,10,0]; at the start of a frame it is that frame's color.
C9_LinearBlend ==
    (painted # None /\ 0 <= painted[1].t /\ painted[1].t < TotalTicks) =>
        LET t == painted[1].t
            i == FrameAt(t)
        IN  /\ painted[1].rgbw = Blend(i, t)
            /\ t = FrameStart(i) => painted[1].rgbw = Whole(rgbwKeyframes[i].rgbw)
            /\ (rgbwKeyframes = ExampleKeyframes /\ 2 * t = 5 * TicksPerMinute)
                   => painted[1].rgbw = Whole(<<50, 0, 10, 0>>)

C9_Witness ==
    /\ painted # None
    /\ rgbwKeyframes = ExampleKeyframes
    /\ painted[1].sunUp = 0
    /\ 2 * painted[1].t = 5 * TicksPerMinute
    /\ painted[1].rgbw = Whole(<<50, 0, 10, 0>>)
    /\ rgbw = painted[1].rgbw

\* C10: when the time of day lies in the window [wake - rise, wake + fall] of
\* the wake instant of today (k = 0), yesterday (k = -1) or tomorrow (k = 1),
\* the t paint() passes on is the time elapsed since the start of that
\* window; otherwise t is outside [0, total duration).
C10_WrapAroundMidnight ==
    painted # None =>
        LET n == painted[1].now
            start == painted[1].sunUp * TicksPerMinute - RiseTicks
            end == painted[1].sunUp * TicksPerMinute + FallTicks
            In(k) == start + k * DayTicks <= n /\ n <= end + k * DayTicks
        IN  /\ \A k \in {-1, 0, 1} : In(k) => painted[1].t = n - (start + k * DayTicks)
            /\ (\A k \in {-1, 0, 1} : ~In(k))
                   => (painted[1].t < 0 \/ painted[1].t >= TotalTicks)

\* Ten minutes past midnight, inside the window of yesterday's wake instant 23:59.
C10_Witness ==
    /\ painted # None
    /\ rgbwKeyframes = RGBW_KEYFRAMES
    /\ painted[1].sunUp = 1439
    /\ painted[1].now = 10 * TicksPerMinute
    /\ painted[1].t = (10 + 1 + sunriseDurationMinutes) * TicksPerMinute

(***************************************************************************)
(* Sunrise: the active flag, the 'update' event and stop()                 *)
(***************************************************************************)
Off == Whole(RGBW_OFF)
\* What calcRgbw gives for the state's wake offset and time of day.
KeyframeColor ==
    calcRgbw(rgbwKeyframes, PaintT(sunUpMinutes, dayTick, sunriseDurationMinutes,
                                   sunSetDurationMinutes))
\* The step is an execution of paint().
PaintStep == paintQueued /\ ~paintQueued'

\* C11: once the paint() that setActive(false) queued has run, the color is
\* [0,0,0,0] whatever the wake offset and the time of day; it stays [0,0,0,0]
\* through run() and setSunUpTime() while the flag is false; and a paint() with
\* the flag true stores the color calcRgbw gives for the wake offset and the time.
C11_InactiveIsOff ==
    /\ [](~active /\ ~paintQueued => rgbw = Off)
    /\ [][~active /\ ~active' /\ rgbw = Off => rgbw' = Off]_vars
    /\ [][PaintStep /\ active => rgbw' = KeyframeColor]_vars

\* Inactive and painted off at an instant where the keyframes give a lit color.
C11_Witness ==
    /\ ~active
    /\ ~paintQueued
    /\ rgbw = Off
    /\ sunUpMinutes # 0
    /\ KeyframeColor # Off

\* The color the latest paint() passed to setRgbw.
Computed == IF painted = None THEN Off ELSE painted[1].rgbw

\* C12: a paint() that computes the color already stored emits no 'update', and
\* every 'update' carries a color that differs from the color of the 'update'
\* before it (from [0,0,0,0] for the first one).
C12_NoDuplicateUpdate ==
    /\ [][PaintStep /\ Computed' = rgbw => update' = None]_vars
    /\ [][update' # None => update'[1] # lastUpdate]_vars

\* A paint() of a lit color, one sampled instant after the paint() that emitted
\* it, emitted nothing.
C12_Witness ==
    /\ ~paintQueued
    /\ painted # None
    /\ painted[1].rgbw # Off
    /\ painted[1].rgbw = lastUpdate
    /\ update = None

InRange(c) == \A i \in 1..4 : c[i][1] >= 0 /\ c[i][1] <= 255 * c[i][2]
KeyframesInRange ==
    \A k \in 1..Len(rgbwKeyframes) :
        \A i \in 1..4 : rgbwKeyframes[k].rgbw[i] \in 0..255

\* C20: with keyframe channels within [0,255], the stored color (which getRgbw()
\* returns) and every emitted color have all four channels within [0,255].
C20_ChannelsInRange ==
    KeyframesInRange =>
        /\ InRange(rgbw)
        /\ InRange(lastUpdate)
        /\ update # None => InRange(update[1])

\* An emitted color blended between two keyframes (a channel is not whole).
C20_Witness ==
    /\ update # None
    /\ update[1] = rgbw
    /\ \E i \in 1..4 : rgbw[i][2] > 1

\* C13: after stop() and until a setter is called, neither the timer of run()
\* nor the timer of the debounced paint() is pending, the color is [0,0,0,0],
\* and no 'update' with another color is emitted.
C13_StopQuiesces ==
    stopped =>
        /\ ~runTimeout
        /\ ~paintQueued
        /\ rgbw = Off
        /\ update # None => update[1] = Off

(***************************************************************************)
(* LightController: stop(), the delta threshold, quantization and easing   *)
(***************************************************************************)
\* The step starts a sensor read / runs the body of paintLoop().
PollStarts == ~reading /\ reading'
PaintTicks == \E t \in LIGHT_LEVEL_TYPES : since'[t] = since[t] + 1

\* C15: once stop() has been called, no sensor read is started and no paint
\* tick runs.
C15_StopHaltsLoops == [][lcStopped => ~PollStarts /\ ~PaintTicks]_vars

\* C16: a step changes a level type's last accepted raw value or its brightness
\* level only when it is a read that returned a sample more than 3.5 sensor
\* units away from the last accepted raw value.
C16_ThresholdGate ==
    [][\A t \in LIGHT_LEVEL_TYPES :
          (lastLightLevels'[t] # lastLightLevels[t]
              \/ brightnessLevels'[t] # brightnessLevels[t])
          => /\ reading /\ ~reading'
             /\ levels' # None
             /\ 2 * Abs(levels'[1][t] - lastLightLevels[t]) > 7]_vars

\* A read returned a sample 1 to 3 units away from the accepted value, which
\* stayed.
C16_Witness ==
    /\ levels # None
    /\ \E t \in LIGHT_LEVEL_TYPES :
          /\ lastLightLevels[t] > 0
          /\ levels[1][t] # lastLightLevels[t]
          /\ Abs(levels[1][t] - lastLightLevels[t]) <= 3

\* The brightness levels of the grid values 0, 7, 14, ...: from 1029 on all are 1.
GridTargets ==
    { sensorValueToBrightness(LIGHT_LEVEL_DELTA_QUANTUM * k) :
          k \in 0..(LIGHT_QUANTIZE_START \div LIGHT_LEVEL_DELTA_QUANTUM + Len(Curve)) }

\* C17: each brightness level is the curve's value at a non-negative multiple of
\* 7 (343 plus a multiple of 7), one of finitely many values, and it is the
\* curve's value at the quantized last accepted raw value.
C17_TargetsOnGrid ==
    \A t \in LIGHT_LEVEL_TYPES :
        LET quantized == Quantize(lastLightLevels[t])
        IN  /\ quantized >= 0
            /\ quantized % 7 = 0
            /\ (quantized - 343) % 7 = 0
            /\ brightnessLevels[t] = sensorValueToBrightness(quantized)
            /\ brightnessLevels[t] \in GridTargets

\* An accepted raw value off the grid (347) with the level of the grid value 350.
C17_Witness ==
    /\ lastLightLevels["ambient"] = 347
    /\ brightnessLevels["ambient"] = sensorValueToBrightness(350)
    /\ brightnessLevels["ambient"] # sensorValueToBrightness(343)

\* The distance of the eased level from the brightness level.
Dist(t) == Abs(brightnessLevels[t] - easedBrightnessLevels[t])
\* The eased level after the step is not on the other side of the level.
NotPast(t) ==
    IF easedBrightnessLevels[t] <= brightnessLevels[t]
    THEN easedBrightnessLevels'[t] <= brightnessLevels[t]
    ELSE easedBrightnessLevels'[t] >= brightnessLevels[t]
SettleTicks == 210

\* C18 as claimed: every paint tick moves an eased level that is not at its
\* brightness level strictly toward it and not past it, and SettleTicks paint
\* ticks after the level changed the eased level is within 1% of it.
C18_StrictlyTowardTarget ==
    /\ [][PaintTicks =>
            \A t \in LIGHT_LEVEL_TYPES :
                Dist(t) > 0 => Dist(t)' < Dist(t) /\ NotPast(t)]_vars
    /\ [](\A t \in LIGHT_LEVEL_TYPES :
            since[t] >= SettleTicks => 100 * Dist(t) <= brightnessLevels[t])

\* The largest distance whose easing step rounds to nothing.
Resolution == (BRIGHTNESS_EASE_COEFFICIENT[2] - 1) \div (2 * BRIGHTNESS_EASE_COEFFICIENT[1])
\* The size of the step: from the eased level at the change to the new level.
StepSize(t) == Abs(brightnessLevels[t] - from[t])
Max(a, b) == IF a >= b THEN a ELSE b

\* C18, amended: a paint tick moves an eased level strictly toward its
\* brightness level while it is farther from it than the rounding resolution,
\* leaves it in place once it is within the resolution, and never moves it
\* past the level; SettleTicks paint ticks after the level changed the eased
\* level is within 1% of the step (or within the resolution).
C18_TowardTargetToResolution ==
    /\ [][PaintTicks =>
            \A t \in LIGHT_LEVEL_TYPES :
                /\ Dist(t) > Resolution => Dist(t)' < Dist(t)
                /\ Dist(t) <= Resolution =>
                       easedBrightnessLevels'[t] = easedBrightnessLevels[t]
                /\ NotPast(t)]_vars
    /\ [](\A t \in LIGHT_LEVEL_TYPES :
            since[t] >= SettleTicks =>
                100 * Dist(t) <= Max(StepSize(t), 100 * Resolution))

\* A downward step, SettleTicks paint ticks old, the eased level within 1% of
\* the step and not yet at rest.
C18_Witness ==
    \E t \in LIGHT_LEVEL_TYPES :
        /\ since[t] >= SettleTicks
        /\ from[t] > brightnessLevels[t] + Unit \div 2
        /\ Dist(t) > Resolution
        /\ 100 * Dist(t) <= StepSize(t)

\* C19: the brightness level and the eased level of both level types are
\* within [0, 1].
C19_LevelsInUnitRange ==
    \A t \in LIGHT_LEVEL_TYPES :
        /\ brightnessLevels[t] >= 0 /\ brightnessLevels[t] <= Unit
        /\ easedBrightnessLevels[t] >= 0 /\ easedBrightnessLevels[t] <= Unit

\* One level type eased up to within 1% of 1 while the other eased back from
\* above 1/2 to within 1% of 0.
C19_Witness ==
    \E t, u \in LIGHT_LEVEL_TYPES :
        /\ brightnessLevels[t] = Unit
        /\ easedBrightnessLevels[t] < Unit
        /\ 100 * (Unit - easedBrightnessLevels[t]) <= Unit
        /\ brightnessLevels[u] = 0
        /\ from[u] > Unit \div 2
        /\ easedBrightnessLevels[u] > 0
        /\ 100 * easedBrightnessLevels[u] <= Unit

(***************************************************************************)
(* Clock: stop()                                                           *)
(***************************************************************************)
\* C14: after Clock.stop() the last color passed to the light controller is
\* [0,0,0,0] and the display is cleared.
C14_StopLeavesOff ==
    clockStopped => lightRgbw = Some(Off) /\ display = "cleared"

(***************************************************************************)
(* LightController: failed reads, channels, notifications                  *)
(***************************************************************************)
\* The step in which getLightLevels() rejects and sensorLoop() resumes.
ReadFails == reading /\ ~reading' /\ levels' = None

\* C21: a failed sensor read leaves both level types' last accepted raw value
\* and target unchanged and arms the timer of the next poll; between polls of
\* a controller that was not stopped the poll timer is pending.
C21_FailedReadSkipped ==
    /\ [][ReadFails => /\ lastLightLevels' = lastLightLevels
                       /\ brightnessLevels' = brightnessLevels
                       /\ sensorLoopTimeout' = "pending"]_vars
    /\ [](i2c /\ ~reading /\ ~lcStopped => sensorLoopTimeout = "pending")
C21_Witness ==
    /\ ~reading
    /\ levels = None
    /\ sensorLoopTimeout = "pending"
    /\ \A t \in LIGHT_LEVEL_TYPES : lastLightLevels[t] # 0 /\ brightnessLevels[t] # 0

\* What a completed read does to level type t, from t's own values only.
OwnSampleStep(t) ==
    /\ IF /\ levels' # None
          /\ Abs(levels'[1][t] - lastLightLevels[t]) * LIGHT_LEVEL_DELTA_THRESHOLD[2]
                 > LIGHT_LEVEL_DELTA_THRESHOLD[1]
       THEN /\ lastLightLevels'[t] = levels'[1][t]
            /\ brightnessLevels'[t] = sensorValueToBrightness(Quantize(levels'[1][t]))
       ELSE /\ lastLightLevels'[t] = lastLightLevels[t]
            /\ brightnessLevels'[t] = brightnessLevels[t]
    /\ easedBrightnessLevels'[t] = easedBrightnessLevels[t]
    /\ easedBrightnessLevelDerivatives'[t] = easedBrightnessLevelDerivatives[t]
\* What a paint tick does to level type t, from t's own values only.
OwnPaintStep(t) ==
    LET dldt == Round((brightnessLevels[t] - easedBrightnessLevels[t])
                          * BRIGHTNESS_EASE_COEFFICIENT[1],
                      BRIGHTNESS_EASE_COEFFICIENT[2])
    IN  /\ easedBrightnessLevelDerivatives'[t] = dldt
        /\ easedBrightnessLevels'[t] = easedBrightnessLevels[t] + dldt
        /\ lastLightLevels'[t] = lastLightLevels[t]
        /\ brightnessLevels'[t] = brightnessLevels[t]

\* C22: the two level types are independent: after a read or a paint tick a
\* level type's last accepted raw value, target, eased value and derivative
\* are a function of that type's own previous values and own sample, whatever
\* the other type's values and sample are.
C22_ChannelsIndependent ==
    [][\A t \in LIGHT_LEVEL_TYPES :
          /\ (reading /\ ~reading') => OwnSampleStep(t)
          /\ PaintTicks => OwnPaintStep(t)]_vars
\* A read was accepted for one level type and not for the other.
C22_Witness ==
    /\ ~reading
    /\ levels # None
    /\ lastLightLevels["cumulative"] = levels[1]["cumulative"]
    /\ lastLightLevels["ambient"] # levels[1]["ambient"]
    /\ lastLightLevels["ambient"] # 0

(***************************************************************************)
(* Sunrise: construction, setters, the periodic tick                       *)
(***************************************************************************)
\* C23: a Sunrise with an empty keyframe list does not exist with a timer
\* armed: neither the timer of run() nor the timer of the debounced paint()
\* is pending.
C23_EmptyFailsAtConstruction ==
    Len(rgbwKeyframes) = 0 => ~runTimeout /\ ~paintQueued

\* The step is a setter call that changes the flag or the wake offset.
SetterStep == active' # active \/ sunUpMinutes' # sunUpMinutes
\* The color paint() stores for the state's flag, wake offset and time of day.
Target == IF active THEN KeyframeColor ELSE Off

C25_ChangeIsWritten == exited => ~unsaved

\* The startup read ends with an error or with a text JSON.parse rejects.
LoadFails == loading /\ ~loading' /\ file.kind \in {"absent", "garbage"}
\* A write ends without the record in the file.
WriteFails == writing # None /\ writing' = None /\ ~exited' /\ file' # StateFile(writing[1])
\* The alarm time, the display and every timer of the clock are as before.
ClockUntouched ==
    /\ alarmTimeMinutes' = alarmTimeMinutes
    /\ UNCHANGED <<sunVars, lcVars>>
    /\ UNCHANGED <<display, showTimeTimeout, saveTimeout, exiting, exited>>

\* C26: a startup read that fails leaves the alarm time (600 when the dial was
\* not turned before), the display and every timer as they were, and so does
\* a write that fails; the process goes on.
C26_FailuresNotFatal ==
    [][/\ LoadFails => ClockUntouched /\ ~exited'
       /\ LoadFails /\ rotations = 0 => alarmTimeMinutes' = DEFAULT_ALARM_MINUTES
       /\ WriteFails => ClockUntouched]_vars
\* The startup read failed, a later write failed, and the dial works.
C26_Witness ==
    /\ ~loading
    /\ ~exiting
    /\ file = GarbageFile
    /\ lastWrite # None
    /\ writing = None
    /\ saveTimeout
    /\ alarmTimeMinutes # DEFAULT_ALARM_MINUTES

\* C27: every paint tick emits 'update.brightness' once, with the eased levels
\* it has just computed, whether or not they differ from those of the tick
\* before, and sets the paint timer with a delay of the paint period less the
\* time the tick took, or 0 when it took longer; no other step emits the event.
C27_EmitsEveryTick ==
    [][/\ PaintTicks =>
             /\ brightnessUpdate' = Some(easedBrightnessLevels')
             /\ paintLoopTimeout' = "pending"
             /\ paintWaitMs' # None
             /\ LET e == paintWaitMs'[1].elapsedMs
                    w == paintWaitMs'[1].waitMs
                    period == DEFAULT_PAINT_PERIOD_MS
                IN  IF e * period[2] >= period[1]
                    THEN w[1] = 0
                    ELSE (w[1] + e * w[2]) * period[2] = period[1] * w[2]
       /\ ~PaintTicks => brightnessUpdate' = None]_vars
\* A tick that left both eased levels as they were has emitted them, and its
\* timer was set with delay 0 because the tick took longer than the period.
C27_Witness ==
    /\ brightnessUpdate = Some(easedBrightnessLevels)
    /\ \A t \in LIGHT_LEVEL_TYPES :
          /\ easedBrightnessLevelDerivatives[t] = 0
          /\ since[t] >= 2
    /\ paintWaitMs # None
    /\ paintWaitMs[1].elapsedMs > 33
    /\ paintWaitMs[1].waitMs = <<0, 1>>
    /\ paintLoopTimeout = "pending"

\* The step is a periodic tick: run() called by its timer.
RunStep == dayTick' # dayTick

C29_FallbackUnreached == painted # None => painted[1].t < TotalTicks

\* C29: the t paint() passes to calcRgbw reaches the total duration of the
\* keyframes exactly when the time of day is the end of today's window, or is
\* before the start of today's window and not before the end of yesterday's;
\* calcRgbw then runs out of frames and returns the first keyframe's color.
C29_FallbackBeforeWindow ==
    painted # None =>
        LET n == painted[1].now
            start == painted[1].sunUp * TicksPerMinute - RiseTicks
            end == painted[1].sunUp * TicksPerMinute + FallTicks
        IN  /\ painted[1].t >= TotalTicks
                   <=> (n = end \/ (start > n /\ n >= end - DayTicks))
            /\ painted[1].t >= TotalTicks => painted[1].rgbw = FirstColor
\* Wake offset 10:00, painted before 09:30: all frames were passed over.
C29_Witness ==
    /\ painted # None
    /\ rgbwKeyframes = RGBW_KEYFRAMES
    /\ painted[1].sunUp = 600
    /\ painted[1].now < (600 - sunriseDurationMinutes) * TicksPerMinute
    /\ painted[1].t >= TotalTicks
    /\ rgbw = Off

(***************************************************************************)
(* Ambient: the toggle input                                               *)
(***************************************************************************)
\* C30: an alert of the toggle input less than TOGGLE_IGNORE_DELAY_MS after
\* the last accepted one leaves isOn and lastToggle as they were; any other
\* alert flips isOn once and stores its time in lastToggle.
C30_ToggleIgnoresBounce ==
    [][alerts' # alerts =>
          IF toggleNow' - lastToggle < 300
          THEN isOn' = isOn /\ lastToggle' = lastToggle
          ELSE isOn' = ~isOn /\ lastToggle' = toggleNow']_vars
\* A press and its release 299 ms later: two alerts, one toggle.
C30_Witness ==
    /\ alerts = 2
    /\ isOn
    /\ lastToggle = EpochMs
    /\ toggleNow = lastToggle + 299

(***************************************************************************)
(*                     Claims: the wake marker                             *)
(***************************************************************************)
\* The first keyframe marked sunUp.
MarkerIndex ==
    CHOOSE i \in 1..Len(rgbwKeyframes) :
        rgbwKeyframes[i].sunUp /\ \A j \in 1..(i - 1) : ~rgbwKeyframes[j].sunUp

\* C31: the rise duration is the sum of the durations before the marked
\* keyframe and the fall duration is the rest, the marked frame's own
\* duration included; an active timeline painted when the time of day equals
\* the wake offset shows the marked keyframe's color exactly.
C31_WakeIsMarkerColor ==
    (\E i \in 1..Len(rgbwKeyframes) : rgbwKeyframes[i].sunUp) =>
        /\ RiseTicks = FrameStart(MarkerIndex)
        /\ FallTicks = TotalTicks - FrameStart(MarkerIndex)
        /\ (painted # None /\ painted[1].now = painted[1].sunUp * TicksPerMinute) =>
              /\ painted[1].t = RiseTicks
              /\ painted[1].rgbw = Whole(rgbwKeyframes[MarkerIndex].rgbw)

\* Painted at 10:00 with the wake offset 600, the marked frame being tinted.
C31_Witness ==
    /\ painted # None
    /\ rgbwKeyframes = TintedKeyframes
    /\ painted[1].sunUp = 600
    /\ painted[1].now = 600 * TicksPerMinute
    /\ painted[1].rgbw = Whole(<<250, 0, 255, 7>>)
    /\ rgbw = painted[1].rgbw

(***************************************************************************)
(*                  Claims: the dial turned there and back                 *)
(***************************************************************************)
\* The transition code of the step from cur back to prev.
ReverseCode(code) == TransitionCode(code % 4, code \div 4)
\* The states the dial has passed through, from the initial state on.
Path == <<0>> \o fed
Retraced == \A k \in 1..Len(Path) : Path[k] = Path[Len(Path) + 1 - k]

\* C32: the delta of a step between two quadrature states is the negation of
\* the delta of the step back, and a dial stepped through N states and back
\* through the same states has emitted deltas that sum to zero.
C32_ReverseNegates ==
    /\ transition # None =>
          getDeltaFromTransitionState(transition[1])
              = -getDeltaFromTransitionState(ReverseCode(transition[1]))
    /\ Retraced => plus = minus

(***************************************************************************)
(*                 Claims: debounce, the bound of a burst                  *)
(***************************************************************************)
\* C33: in bounded mode every execution comes within maxDelay + minDelay of
\* the first call of its burst, and no call is lost: after a call either a
\* timer is pending that is due at or after the call and within that bound,
\* or the operation has executed at or after the call.
C33_BoundedByBothDelays ==
    Bounded =>
        /\ lastExec # None => Latency <= maxDelay[1] + minDelay
        /\ callTimeout # None =>
              /\ lastCall # None
              /\ lastCall[1].time <= callTimeout[1].due
              /\ now <= callTimeout[1].due
              /\ callTimeout[1].due <= burstFirst + maxDelay[1] + minDelay
        /\ (callTimeout = None /\ lastCall # None) =>
              /\ lastExec # None
              /\ lastCall[1].time <= lastExec[1].time

\* A burst whose calls kept arriving until just before the deadline: the
\* execution comes later than maxDelay after the first call.
C33_Witness ==
    /\ Bounded
    /\ minDelay = 3
    /\ maxDelay = Some(5)
    /\ callTimeout = None
    /\ lastExec # None
    /\ Latency = 7
    /\ lastExec[1].callTime = lastExec[1].first + 4

(***************************************************************************)
(*                    Claims: the alarm time stays in the day              *)
(***************************************************************************)
\* C34: alarmTimeMinutes is an integer of 0..1439 in every state of the clock,
\* whatever rotate and release events arrive, however far the dial is turned
\* within one edit session.
C34_AlarmTimeInDay == alarmTimeMinutes \in 0..(DAY_MINUTES - 1)

(***************************************************************************)
(*                    Claims: the show-time timer                          *)
(***************************************************************************)
\* A 'release' event has been handled: the edit mode is another one and no
\* 'rotate' event set it.
ReleaseStep ==
    /\ editMode' # editMode
    /\ editMode' # "null"
    /\ rotations' = rotations
\* The timer set by updateAlarmTime() fires.
AlarmTimerStep ==
    /\ showTimeTimeout # <<>>
    /\ showTimeTimeout[1] = "alarm"
    /\ showTimeTimeout' = <<"run">>
NextMode(m) == IF m = "MINUTES" THEN "HOURS" ELSE "MINUTES"

\* C35: while an edit mode is set, the timer that ends it is pending, and when
\* it fires editMode is null and the display shows the time; a 'release' event
\* moves editMode null -> MINUTES -> HOURS -> MINUTES; at most one show-time
\* timer is pending.
C35_EditEndsAfterDelay ==
    [][/\ editMode' # "null" => showTimeTimeout' = <<"alarm">>
       /\ AlarmTimerStep => editMode' = "null" /\ display' = "digits"
       /\ ReleaseStep => editMode' = NextMode(editMode)
       /\ Len(showTimeTimeout') <= 1]_vars

(***************************************************************************)
(*                 Claims: the wake offset and the alarm time              *)
(***************************************************************************)
\* C36: once the startup read of the state file has completed, with the
\* record or with a failure, the wake offset of Sunrise equals the clock's
\* alarm time between any two handlers.
C36_WakeOffsetIsAlarmTime == ~loading => sunUpMinutes = alarmTimeMinutes

(***************************************************************************)
(*                Claims: the grid value and the sample                    *)
(***************************************************************************)
\* The grid value the level's target was computed from.
TargetGrid(t) == Quantize(lastLightLevels[t])

\* C37: after a successful read with raw value r on a channel, the grid value
\* the channel's target was computed from is at most 6 away from r, less than
\* one quantum; after a raw value 0 it is 0.
C37_GridNearSample ==
    (levels # None /\ ~reading) =>
        \A t \in LIGHT_LEVEL_TYPES :
            /\ brightnessLevels[t] = sensorValueToBrightness(TargetGrid(t))
            /\ Abs(TargetGrid(t) - levels[1][t]) <= 6
            /\ Abs(TargetGrid(t) - levels[1][t]) < LIGHT_LEVEL_DELTA_QUANTUM
            /\ levels[1][t] = 0 => TargetGrid(t) = 0

\* The sample 349 after the accepted value 346, whose grid value is 343, and a
\* sample 0 after the accepted value 3.
C37_Witness ==
    /\ ~reading
    /\ levels = Some([ambient |-> 349, cumulative |-> 0])
    /\ lastLightLevels = [ambient |-> 346, cumulative |-> 3]
    /\ TargetGrid("ambient") = 343
    /\ TargetGrid("cumulative") = 0

(***************************************************************************)
(*                 Claims: the color sent to the light                     *)
(***************************************************************************)
\* Sunrise or Ambient has emitted 'update': its color is another one.
SunriseEmits == rgbw' # rgbw
AmbientEmits == ambientRgbw' # ambientRgbw
\* The bus opens: the 'ready' callback sends RGBW_OFF after the listeners ran.
ReadyStep == ~isReady /\ isReady'

\* C38: the color updateLight sends when Sunrise or Ambient emits 'update' is
\* the ambient color when Ambient is on then, else the Sunrise color; when
\* Ambient is turned off the Sunrise color is sent.
C38_SinkFollowsAmbientOrSunrise ==
    [][~ReadyStep =>
          /\ (SunriseEmits \/ AmbientEmits)
                => lightRgbw' = Some(IF isOn' THEN ambientRgbw' ELSE rgbw')
          /\ (isOn /\ ~isOn') => lightRgbw' = Some(rgbw')]_vars

\* Ambient has been turned on and off again while the sunrise was lit.
C38_Witness ==
    /\ alerts = 2
    /\ ~isOn
    /\ ambientRgbw = Whole(RGBW_OFF)
    /\ rgbw # Whole(RGBW_OFF)
    /\ lightRgbw = Some(rgbw)

(***************************************************************************)
(*               Claims: a debounced method of two objects                 *)
(***************************************************************************)
\* A call on an object other than the one whose execution is pending.
CallOnOther ==
    /\ callTimeout # None
    /\ lastCall' # lastCall
    /\ lastCall'[1].args.this # callTimeout[1].args.this

\* C39: a call of a debounced method on one object leaves the pending
\* execution that a call on another object of the class has scheduled: it is
\* not cancelled, not delayed and not replaced.
C39_PendingPerObject ==
    [][CallOnOther =>
          /\ callTimeout' # None
          /\ callTimeout'[1].args.this = callTimeout[1].args.this
          /\ callTimeout'[1].due = callTimeout[1].due]_vars
====
